---- MODULE Spec2Model ----
(***************************************************************************)
(* Model of the MDX slide presenter: the remarkSlides segmenter, the       *)
(* DynamicMDX viewer (compile, slide index tracking, navigation) and the   *)
(* PresenterView console synchronised over the 'presentation-sync'         *)
(* BroadcastChannel.                                                       *)
(***************************************************************************)
EXTENDS Integers, Sequences, FiniteSets, TLC

(***************************************************************************)
(* Bounds                                                                  *)
(***************************************************************************)
\* longest list of root-level nodes handed to the segmenter
MaxLen == 4
\* most SlideChange messages waiting at one BroadcastChannel object
MaxQueue == 2
\* most zip archives dropped on the file picker in one run
MaxLoads == 2
\* most navigation commands given in the presenter consoles in one run
MaxNav == 2
\* most navigation commands given before a session ends
MaxSessionNav == 1
\* archives dropped on the file picker in a row, read one after the other
MaxArchives == 3
\* most sections for which the tracker's policy is evaluated on its own
MaxSections == 5
\* archives being read when a hand-over session starts
MaxStoreLoads == 1
\* longest list of root-level nodes of a rendered deck
MaxDeckLen == 3
\* most entries of a dropped archive
MaxEntries == 2

\* window.innerHeight, in scroll units; every slide is one viewport high
ViewportHeight == 4

VARIABLES
  rootChildren,   \* the parser's root children (the array read at DynamicMDX.tsx:19)
  tree,           \* the tree object the plugin rewrites (tree.children)
  segPc,          \* "parsed" before the plugin ran, "segmented" after, "fedBack"
                  \* after it ran once more on its own output
  bcAvailable,    \* the host platform defines BroadcastChannel
  urlMode,        \* per window: the mode query parameter of its URL
  zipFile,        \* the entries of the archive dropped last, in archive order
  page,           \* per window: "closed", "open" (React root mounted), "crashed"
  stored,         \* localStorage['presentation-data']: a document or NoDoc
  zipPending,     \* processZipFile calls of the file picker still running
  drops,          \* archives dropped so far
  navs,           \* navigation commands given so far
  loadedFile,     \* per window: App state, the document or NoDoc (null)
  pending,        \* per window: evaluate() calls in flight, as [req, content]
  requested,      \* per window: compile requests issued by the mounted DynamicMDX
  MDXContent,     \* per window: the document whose compiled component is held
  error,          \* per window: the document whose error message is held
  currentSlideIndex,
  totalSlides,
  scrollTop,      \* per window: scrollTop of the <main> container
  scrollTarget,   \* per window: end position of the running smooth scroll, or -1
  listening,      \* per window: handleScroll is attached to the mounted container
  inflight,       \* per channel object: SlideChange messages queued for it
  channels,       \* per view: the BroadcastChannel objects it created and has
                  \* not closed
  closeMsgs,      \* CLOSE_PRESENTATION messages posted to the primary window
  last            \* the handler that ran last, what it posted, and whether it
                  \* was a delivery repeating the delivery before it

segVars == <<rootChildren, tree, segPc>>
appVars == <<bcAvailable, urlMode, zipFile, page, stored, zipPending, drops, navs, loadedFile>>
mdxVars == <<pending, requested, MDXContent, error, currentSlideIndex, totalSlides,
             scrollTop, scrollTarget, listening>>
viewVars == <<bcAvailable, urlMode, zipFile, page, stored, zipPending, drops, navs, loadedFile,
              pending, requested, MDXContent, error, currentSlideIndex, totalSlides,
              scrollTop, scrollTarget, listening, inflight, channels, closeMsgs,
              last>>
vars == <<rootChildren, tree, segPc, bcAvailable, urlMode, zipFile, page, stored, zipPending, drops,
          navs, loadedFile, pending, requested, MDXContent, error,
          currentSlideIndex, totalSlides, scrollTop, scrollTarget, listening,
          inflight, channels, closeMsgs, last>>

(***************************************************************************)
(* Slide Segmenter (remarkSlides)                                          *)
(***************************************************************************)
Leaf(type, name) == [type |-> type, name |-> name, children |-> <<>>]
ThematicBreak == Leaf("thematicBreak", "hr")
Paragraph(name) == Leaf("paragraph", name)
Container(type, name, kids) == [type |-> type, name |-> name, children |-> kids]

\* the nodes a parser can hand over at root level: two paragraphs, a break,
\* a block quote holding a break, an embedded component holding a break
NodePool ==
  { Paragraph("A"), Paragraph("B"), ThematicBreak,
    Container("blockquote", "quote", <<ThematicBreak>>),
    Container("mdxJsxFlowElement", "Callout", <<Paragraph("A"), ThematicBreak>>) }

RECURSIVE SeqsUpTo(_, _)
SeqsUpTo(S, n) ==
  IF n = 0 THEN { <<>> }
  ELSE LET shorter == SeqsUpTo(S, n - 1)
       IN shorter \cup { Append(s, x) : s \in { t \in shorter : Len(t) = n - 1 }, x \in S }

RootInputs == SeqsUpTo(NodePool, MaxLen)

IsThematicBreakDeep(node) ==
  \/ node.type = "thematicBreak"
  \/ \E k \in 1..Len(node.children) : node.children[k].type = "thematicBreak"

IsThematicBreak(node) == node.type = "thematicBreak"

SlideNode(slideContent) ==
  [type |-> "mdxJsxFlowElement", name |-> "Slide", attributes |-> <<>>,
   children |-> slideContent]

\* the body of the forEach callback that also splits at a Slide element
ForEachBodySplitAtSlide(acc, node) ==
  IF IsThematicBreak(node) \/ node.name = "Slide"
  THEN IF Len(acc.slideContent) > 0
       THEN [newChildren |-> Append(acc.newChildren, SlideNode(acc.slideContent)),
             slideContent |-> <<>>]
       ELSE acc
  ELSE [acc EXCEPT !.slideContent = Append(@, node)]

\* the body of the forEach callback, without the emptiness test
ForEachBodyKeepEmpty(acc, node) ==
  IF IsThematicBreak(node)
  THEN [newChildren |-> Append(acc.newChildren, SlideNode(acc.slideContent)),
        slideContent |-> <<>>]
  ELSE [acc EXCEPT !.slideContent = Append(@, node)]

\* the body of the forEach callback: one root child against the accumulator
ForEachBody(acc, node) ==
  IF IsThematicBreak(node)
  THEN IF Len(acc.slideContent) > 0
       THEN [newChildren |-> Append(acc.newChildren, SlideNode(acc.slideContent)),
             slideContent |-> <<>>]
       ELSE acc
  ELSE [acc EXCEPT !.slideContent = Append(@, node)]

RECURSIVE ForEach(_, _)
ForEach(children, acc) ==
  IF children = <<>> THEN acc
  ELSE ForEach(Tail(children), ForEachBody(acc, Head(children)))

\* the plugin without the wrap of the remaining content
remarkSlidesNoTail(children) ==
  ForEach(children, [newChildren |-> <<>>, slideContent |-> <<>>]).newChildren

\* the plugin that wraps the remaining content in front instead of at the end
remarkSlidesTailFirst(children) ==
  LET acc == ForEach(children, [newChildren |-> <<>>, slideContent |-> <<>>])
  IN IF Len(acc.slideContent) > 0
     THEN <<SlideNode(acc.slideContent)>> \o acc.newChildren
     ELSE acc.newChildren

remarkSlides(children) ==
  LET acc == ForEach(children, [newChildren |-> <<>>, slideContent |-> <<>>])
  IN IF Len(acc.slideContent) > 0
     THEN Append(acc.newChildren, SlideNode(acc.slideContent))
     ELSE acc.newChildren

(***************************************************************************)
(* Rendering: the components the compiled document is rendered with, and   *)
(* the DOM queries of the viewer and the console                           *)
(***************************************************************************)
\* DOM nodes: text nodes and elements; notes is the data-speaker-notes
\* attribute
Text(t) == [tag |-> "#text", notes |-> FALSE, text |-> t, children |-> <<>>]
Element(tag, kids) == [tag |-> tag, notes |-> FALSE, text |-> "", children |-> kids]
NotesElement(kids) == [tag |-> "div", notes |-> TRUE, text |-> "", children |-> kids]

RECURSIVE Join(_)
Join(seqs) == IF seqs = <<>> THEN <<>> ELSE Head(seqs) \o Join(Tail(seqs))

\* what a node of the compiled tree renders: a paragraph named t holds the
\* text t; Slide and TwoColumnSlide render a section, SpeakerNotes a div with
\* the data-speaker-notes attribute, Callout a div; TwoColumnSlide renders
\* its first two children, one per column
RECURSIVE Render(_)
Render(node) ==
  LET kids == [k \in 1..Len(node.children) |-> Render(node.children[k])]
      left == IF Len(kids) >= 1 THEN <<kids[1]>> ELSE <<>>
      right == IF Len(kids) >= 2 THEN <<kids[2]>> ELSE <<>>
  IN CASE node.type = "paragraph" -> Element("p", <<Text(node.name)>>)
       [] node.type = "thematicBreak" -> Element("hr", <<>>)
       [] node.type = "blockquote" -> Element("blockquote", kids)
       [] node.name = "Slide" -> Element("section", <<Element("div", kids)>>)
       [] node.name = "TwoColumnSlide" ->
            Element("section",
                    <<Element("div", <<Element("div", <<Element("div", left),
                                                        Element("div", right)>>)>>)>>)
       [] node.name = "SpeakerNotes" -> NotesElement(kids)
       [] OTHER -> Element("div", kids)

\* the descendants of an element in document order
RECURSIVE Descendants(_)
Descendants(el) ==
  Join([k \in 1..Len(el.children) |->
          <<el.children[k]>> \o Descendants(el.children[k])])

Matches(el, selector) ==
  IF selector = "[data-speaker-notes]" THEN el.notes ELSE el.tag = selector

querySelectorAll(el, selector) ==
  SelectSeq(Descendants(el), LAMBDA e : Matches(e, selector))

\* textContent, as the sequence of the texts of the text nodes below el
RECURSIVE textContent(_)
textContent(el) ==
  IF el.tag = "#text" THEN <<el.text>>
  ELSE Join([k \in 1..Len(el.children) |-> textContent(el.children[k])])

\* the serialisation of an element, as a sequence of tags and texts
OpenTag(el) == [kind |-> "open", tag |-> el.tag, notes |-> el.notes]
CloseTag(el) == [kind |-> "close", tag |-> el.tag, notes |-> FALSE]
TextToken(el) == [kind |-> "text", tag |-> el.text, notes |-> FALSE]

RECURSIVE outerHTML(_)
outerHTML(el) ==
  IF el.tag = "#text" THEN <<TextToken(el)>>
  ELSE IF el.tag = "hr" THEN <<OpenTag(el)>>
  ELSE <<OpenTag(el)>>
       \o Join([k \in 1..Len(el.children) |-> outerHTML(el.children[k])])
       \o <<CloseTag(el)>>

innerHTML(el) == Join([k \in 1..Len(el.children) |-> outerHTML(el.children[k])])

\* html.replace(/<div[^>]*data-speaker-notes[^>]*>.*?<\/div>/gs, ''): every
\* match runs from an opening div tag that carries the attribute to the first
\* closing div tag after it
RECURSIVE replace(_)
replace(html) ==
  IF html = <<>> THEN <<>>
  ELSE LET closes == {j \in 2..Len(html) : html[j].kind = "close" /\ html[j].tag = "div"}
           first == CHOOSE j \in closes : \A i \in closes : j <= i
       IN IF Head(html).kind = "open" /\ Head(html).tag = "div" /\ Head(html).notes
             /\ closes # {}
          THEN replace(SubSeq(html, first + 1, Len(html)))
          ELSE <<Head(html)>> \o replace(Tail(html))

\* clone.querySelectorAll('[data-speaker-notes]').forEach(note => note.remove())
RECURSIVE RemoveNotes(_)
RemoveNotes(el) ==
  LET kept == SelectSeq(el.children, LAMBDA e : ~e.notes)
  IN [el EXCEPT !.children = [k \in 1..Len(kept) |-> RemoveNotes(kept[k])]]

(***************************************************************************)
(* Windows, documents and the broadcast medium                             *)
(***************************************************************************)
\* the primary window, the companion it opens, and a second console in a tab
Windows == {"main", "presenter", "presenter2"}

\* the values of the mode query parameter: absent (params.get yields null),
\* the two values the code names, and a value it does not name
ModeValues == {"null", "presenter", "presentation", "draft"}

\* the parameter in a session started the usual way: the primary window is
\* opened without it, the companion and the tab with ?mode=presenter
SessionModes == [w \in Windows |-> IF w = "main" THEN "null" ELSE "presenter"]

\* the mode query parameter of the window's URL
UrlMode(w) == urlMode[w]

\* DynamicMDX's viewMode once the mode effect has run
viewMode(w) ==
  IF UrlMode(w) \in {"presentation", "presenter"} THEN UrlMode(w)
  ELSE IF UrlMode(w) = "null" THEN "presentation"
  ELSE "normal"

NoDoc == 0
\* 1: three slides, 2: two slides, 3: malformed (evaluate rejects it)
Docs == {1, 2, 3}
\* the document whose parsed root children are rootChildren
TreeDoc == 4

DocSource(c) ==
  CASE c = 1 -> <<Paragraph("A"), ThematicBreak, Paragraph("B"), ThematicBreak, Paragraph("A")>>
    [] c = 2 -> <<Paragraph("A"), ThematicBreak, Paragraph("B")>>
    [] OTHER -> <<>>

CompileFails(c) == c = 3

\* the <main> element with a compiled document rendered in it: the plugin
\* rewrites the root children, every node renders its component
RenderMain(children) ==
  LET units == remarkSlides(children)
  IN Element("main", [k \in 1..Len(units) |-> Render(units[k])])

\* the root children the parser hands over for document c
ParsedRoot(c) == IF c = TreeDoc THEN rootChildren ELSE DocSource(c)

\* the <main> element of a view that holds the compiled document c
Rendered(c) == RenderMain(ParsedRoot(c))

\* querySelectorAll('section').length for each of the documents of Docs
DocSections ==
  [c \in Docs |-> Len(querySelectorAll(RenderMain(DocSource(c)), "section"))]

\* the <section> elements the compiled document renders, nested ones included
SectionCount(c) ==
  IF c = NoDoc \/ CompileFails(c) THEN 0
  ELSE IF c = TreeDoc THEN Len(querySelectorAll(Rendered(c), "section"))
  ELSE DocSections[c]

\* the slide indices a view publishes
SlideIdx == 0..2

\* slideIndex values a SLIDE_CHANGE message can carry: the indices a view
\* publishes, and a negative one only a foreign sender puts on the channel
MsgIdx == {-1} \cup SlideIdx

\* each DynamicMDX holds one channel object ("D"), each PresenterView one ("PV")
Chans == Windows \X {"D", "PV"}

EmptyQ == [i \in MsgIdx |-> 0]
QLen(q) == q[-1] + q[0] + q[1] + q[2]

DMounted(w) == page[w] = "open" /\ loadedFile[w] # NoDoc

\* the <main> element is rendered (neither the error panel nor the loading screen)
ContainerMounted(w) == DMounted(w) /\ error[w] = NoDoc /\ MDXContent[w] # NoDoc

PVMounted(w) == ContainerMounted(w) /\ viewMode(w) = "presenter"

\* what window w renders: App's file picker, or DynamicMDX's error panel,
\* loading screen or content
Shows(w) ==
  IF page[w] # "open" THEN "nothing"
  ELSE IF loadedFile[w] = NoDoc THEN "picker"
  ELSE IF error[w] # NoDoc THEN "error"
  ELSE IF MDXContent[w] = NoDoc THEN "loading"
  ELSE "content"

\* style display:none of the <main> element
Hidden(w) == viewMode(w) = "presenter"

\* the view that owns the channel object is mounted
OwnerMounted(ch) == IF ch[2] = "D" THEN DMounted(ch[1]) ELSE PVMounted(ch[1])

IsOpen(ch) == channels[ch] > 0
OpenChans == { ch \in Chans : IsOpen(ch) }

\* BroadcastChannel.postMessage from the channel object src: one copy for every
\* other open channel object of the same name
PostMessage(q, src, i) ==
  [ch \in Chans |->
     IF ch # src /\ ch \in OpenChans THEN [q[ch] EXCEPT ![i] = @ + 1] ELSE q[ch]]

HasRoom(q, src) == \A ch \in OpenChans \ {src} : QLen(q[ch]) < MaxQueue

CloseChannel(q, ch) == [q EXCEPT ![ch] = EmptyQ]

TakeMessage(q, ch, i) == [q EXCEPT ![ch][i] = @ - 1]

(***************************************************************************)
(* PresenterView: subscribe effect and publish effect                      *)
(***************************************************************************)
\* the subscribe effect re-runs (the old channel is closed, a new one is
\* created) and the publish effect posts SLIDE_CHANGE on the new channel
Republish(q, w, v) == PostMessage(CloseChannel(q, <<w, "PV">>), <<w, "PV">>, v)

\* a publish effect that runs whenever the view rendered, changed index or not
PublishEffectEveryRender(q, w, v) ==
  IF PVMounted(w) THEN Republish(q, w, v) ELSE q

\* the effects of a mounted PresenterView after currentSlideIndex became v
PublishEffect(q, w, v) ==
  IF PVMounted(w) /\ v # currentSlideIndex[w] THEN Republish(q, w, v) ELSE q

\* a subscribe effect whose cleanup leaves the previous channel open
RecreatedNoClose(w) == [channels EXCEPT ![<<w, "PV">>] = @ + 1]

\* the channel objects after the subscribe effect re-ran in window w: the
\* cleanup closes the object the ref holds, the effect creates the next one
Recreated(w) == [channels EXCEPT ![<<w, "PV">>] = (@ - 1) + 1]

\* the channel objects after the effects of a mounted PresenterView ran
\* because currentSlideIndex became v
ChannelsAfter(w, v) ==
  IF PVMounted(w) /\ v # currentSlideIndex[w] THEN Recreated(w) ELSE channels

Posted(w, v) == IF PVMounted(w) /\ v # currentSlideIndex[w] THEN {<<w, v>>} ELSE {}

RoomToPublish(q, w, v) ==
  (PVMounted(w) /\ v # currentSlideIndex[w]) => HasRoom(q, <<w, "PV">>)

(***************************************************************************)
(* Slide index tracker                                                     *)
(***************************************************************************)
MaxScroll(n) == IF n > 0 THEN (n - 1) * ViewportHeight ELSE 0

Min(a, b) == IF a < b THEN a ELSE b
Max(a, b) == IF a > b THEN a ELSE b

\* slide.getBoundingClientRect().top: all zero while the container is hidden
RectTop(w, k, y) == IF Hidden(w) THEN 0 ELSE k * ViewportHeight - y

\* findIndex that wants the top edge strictly below the viewport's top
findIndexStrict(w, n, y) ==
  LET hits == { k \in 0..(n - 1) :
                  RectTop(w, k, y) > 0 /\ 2 * RectTop(w, k, y) < ViewportHeight }
  IN IF hits = {} THEN -1 ELSE CHOOSE k \in hits : \A j \in hits : k <= j

\* Array.from(slides).findIndex(...) of handleScroll
findIndex(w, n, y) ==
  LET hits == { k \in 0..(n - 1) :
                  RectTop(w, k, y) >= 0 /\ 2 * RectTop(w, k, y) < ViewportHeight }
  IN IF hits = {} THEN -1 ELSE CHOOSE k \in hits : \A j \in hits : k <= j

\* the index after handleScroll ran on n sections at scroll position y
handleScroll(w, n, y) ==
  IF findIndex(w, n, y) # -1 THEN findIndex(w, n, y) ELSE currentSlideIndex[w]

Sections(w) == SectionCount(MDXContent[w])

\* containerRef.current of a view that renders its <main> element
container(w) == Rendered(MDXContent[w])

\* the text shown where a slide has no notes
NoNotesSentinel == <<"Keine Notizen fuer diese Folie">>

\* PresenterView's currentNotes once the projection effect has run for
\* currentSlideIndex: the text of the first element with data-speaker-notes
\* below the section at the index, or '' (the container of a console renders
\* one document as long as the console is mounted)
currentNotes(w) ==
  LET slides == querySelectorAll(container(w), "section")
      i == currentSlideIndex[w] + 1
  IN IF i <= Len(slides)
     THEN LET found == querySelectorAll(slides[i], "[data-speaker-notes]")
          IN IF found = <<>> THEN <<>> ELSE textContent(found[1])
     ELSE <<>>

\* the notes panel: {currentNotes ? currentNotes : 'Keine Notizen ...'}
NotesPanel(w) == IF currentNotes(w) # <<>> THEN currentNotes(w) ELSE NoNotesSentinel

\* PresenterView's nextSlidePreview once the projection effect has run: the
\* innerHTML of a clone of the next section with the notes elements removed
nextSlidePreview(w) ==
  LET slides == querySelectorAll(container(w), "section")
      i == currentSlideIndex[w] + 2
  IN IF i <= Len(slides) THEN innerHTML(RemoveNotes(slides[i])) ELSE <<>>

\* currentSlideHTML, computed when PresenterView renders
currentSlideHTML(w) ==
  LET slides == querySelectorAll(container(w), "section")
      i == currentSlideIndex[w] + 1
  IN IF i <= Len(slides) THEN replace(innerHTML(slides[i])) ELSE <<>>

DeliverOps == {"deliverD", "deliverPV"}

\* the handler is an onmessage that gets the message the previous handler got
Again(op, w, i) ==
  op \in DeliverOps /\ last.op \in DeliverOps /\ last.win = w /\ last.idx = i

Event(op, w, i, posted) ==
  [op |-> op, win |-> w, idx |-> i, posted |-> posted, again |-> Again(op, w, i)]

NoEvent == [op |-> "init", win |-> "main", idx |-> 0, posted |-> {}, again |-> FALSE]

\* goToSlide that steps back to the first slide when the view already shows
\* the requested one
goToSlideBounce(w, index, q, op) ==
  LET to == IF currentSlideIndex[w] = index THEN 0 ELSE index
  IN IF ContainerMounted(w) /\ index >= 0 /\ index < Sections(w)
     THEN /\ RoomToPublish(q, w, to)
          /\ currentSlideIndex' = [currentSlideIndex EXCEPT ![w] = to]
          /\ scrollTarget' = [scrollTarget EXCEPT ![w] =
               IF Hidden(w) \/ scrollTop[w] = to * ViewportHeight
               THEN -1 ELSE to * ViewportHeight]
          /\ inflight' = PublishEffect(q, w, to)
          /\ channels' = ChannelsAfter(w, to)
          /\ last' = Event(op, w, index, Posted(w, to))
     ELSE /\ inflight' = q
          /\ last' = Event(op, w, index, {})
          /\ UNCHANGED <<currentSlideIndex, scrollTarget, channels>>

\* goToSlide that starts the scroll and leaves the index to the scroll events
goToSlideLazy(w, index, q, op) ==
  IF ContainerMounted(w) /\ index >= 0 /\ index < Sections(w)
  THEN /\ scrollTarget' = [scrollTarget EXCEPT ![w] =
            IF Hidden(w) \/ scrollTop[w] = index * ViewportHeight
            THEN -1 ELSE index * ViewportHeight]
       /\ inflight' = q
       /\ last' = Event(op, w, index, {})
       /\ UNCHANGED <<currentSlideIndex, channels>>
  ELSE /\ inflight' = q
       /\ last' = Event(op, w, index, {})
       /\ UNCHANGED <<currentSlideIndex, scrollTarget, channels>>

\* goToSlide without the test of slides[index]
goToSlideUnguarded(w, index, q, op) ==
  IF ContainerMounted(w)
  THEN /\ RoomToPublish(q, w, index)
       /\ currentSlideIndex' = [currentSlideIndex EXCEPT ![w] = index]
       /\ scrollTarget' = [scrollTarget EXCEPT ![w] =
            IF Hidden(w) \/ scrollTop[w] = index * ViewportHeight
            THEN -1 ELSE index * ViewportHeight]
       /\ inflight' = PublishEffect(q, w, index)
       /\ channels' = ChannelsAfter(w, index)
       /\ last' = Event(op, w, index, Posted(w, index))
  ELSE /\ inflight' = q
       /\ last' = Event(op, w, index, {})
       /\ UNCHANGED <<currentSlideIndex, scrollTarget, channels>>

\* DynamicMDX.goToSlide(index), called with the message queues q
goToSlide(w, index, q, op) ==
  IF ContainerMounted(w) /\ index >= 0 /\ index < Sections(w)
  THEN /\ RoomToPublish(q, w, index)
       /\ currentSlideIndex' = [currentSlideIndex EXCEPT ![w] = index]
       /\ scrollTarget' = [scrollTarget EXCEPT ![w] =
            IF Hidden(w) \/ scrollTop[w] = index * ViewportHeight
            THEN -1 ELSE index * ViewportHeight]
       /\ inflight' = PublishEffect(q, w, index)
       /\ channels' = ChannelsAfter(w, index)
       /\ last' = Event(op, w, index, Posted(w, index))
  ELSE /\ inflight' = q
       /\ last' = Event(op, w, index, {})
       /\ UNCHANGED <<currentSlideIndex, scrollTarget, channels>>

\* broadcastChannel.current.onmessage of DynamicMDX
DeliverD(w, i) ==
  /\ inflight[<<w, "D">>][i] > 0
  /\ goToSlide(w, i, TakeMessage(inflight, <<w, "D">>, i), "deliverD")
  /\ UNCHANGED <<segVars, appVars, pending, requested, MDXContent, error,
                 totalSlides, scrollTop, listening, closeMsgs>>

\* broadcastChannel.current.onmessage of PresenterView: onSlideChange(slideIndex)
DeliverPV(w, i) ==
  /\ inflight[<<w, "PV">>][i] > 0
  /\ goToSlide(w, i, TakeMessage(inflight, <<w, "PV">>, i), "deliverPV")
  /\ UNCHANGED <<segVars, appVars, pending, requested, MDXContent, error,
                 totalSlides, scrollTop, listening, closeMsgs>>

\* PresenterView.goToSlide(currentSlideIndex + dir): arrow key or button
PresenterGoTo(w, dir) ==
  /\ PVMounted(w)
  /\ navs < MaxNav
  /\ navs' = navs + 1
  /\ LET index == currentSlideIndex[w] + dir
     IN IF index >= 0 /\ index < totalSlides[w]
        THEN goToSlide(w, index, inflight, "presenterGoTo")
        ELSE /\ last' = Event("presenterGoTo", w, index, {})
             /\ UNCHANGED <<currentSlideIndex, scrollTarget, inflight, channels>>
  /\ UNCHANGED <<segVars, bcAvailable, urlMode, zipFile, page, stored, zipPending, drops, loadedFile,
                 pending, requested, MDXContent, error, totalSlides, scrollTop,
                 listening, closeMsgs>>

\* a scroll event of the container at position y: handleScroll, when attached
OnScroll(w, y, target, op) ==
  LET index == IF listening[w] THEN handleScroll(w, Sections(w), y)
               ELSE currentSlideIndex[w]
  IN /\ RoomToPublish(inflight, w, index)
     /\ scrollTop' = [scrollTop EXCEPT ![w] = y]
     /\ scrollTarget' = [scrollTarget EXCEPT ![w] = target]
     /\ currentSlideIndex' = [currentSlideIndex EXCEPT ![w] = index]
     /\ inflight' = PublishEffect(inflight, w, index)
     /\ channels' = ChannelsAfter(w, index)
     /\ last' = Event(op, w, index, Posted(w, index))

\* the user scrolls the visible container (wheel, touch, scroll bar)
UserScroll(w, y) ==
  /\ ContainerMounted(w) /\ ~Hidden(w)
  /\ y \in 0..MaxScroll(Sections(w))
  /\ y # scrollTop[w]
  /\ OnScroll(w, y, -1, "scroll")
  /\ UNCHANGED <<segVars, appVars, pending, requested, MDXContent, error,
                 totalSlides, listening, closeMsgs>>

\* one frame of the smooth scroll started by scrollIntoView or scrollBy
ScrollFrame(w, y) ==
  /\ ContainerMounted(w) /\ ~Hidden(w)
  /\ scrollTarget[w] # -1
  /\ y \in 0..MaxScroll(Sections(w))
  /\ \/ scrollTop[w] < y /\ y <= scrollTarget[w]
     \/ scrollTarget[w] <= y /\ y < scrollTop[w]
  /\ OnScroll(w, y, IF y = scrollTarget[w] THEN -1 ELSE scrollTarget[w], "scrollFrame")
  /\ UNCHANGED <<segVars, appVars, pending, requested, MDXContent, error,
                 totalSlides, listening, closeMsgs>>

\* handleKeyDown of DynamicMDX: ArrowLeft / ArrowRight scroll by one viewport
ArrowKey(w, dir) ==
  /\ ContainerMounted(w) /\ ~Hidden(w) /\ listening[w]
  /\ LET to == Max(0, Min(MaxScroll(Sections(w)), scrollTop[w] + dir * ViewportHeight))
     IN /\ to # scrollTop[w]
        /\ scrollTarget' = [scrollTarget EXCEPT ![w] = to]
        /\ last' = Event("arrowKey", w, currentSlideIndex[w], {})
  /\ UNCHANGED <<segVars, appVars, pending, requested, MDXContent, error,
                 currentSlideIndex, totalSlides, scrollTop, listening, inflight,
                 channels, closeMsgs>>

(***************************************************************************)
(* App, FilePicker and the DynamicMDX life cycle                           *)
(***************************************************************************)
Request(n, c) == [req |-> n, content |-> c]

\* the archive is dropped on the file picker: processZipFile starts
DropZip ==
  /\ page["main"] = "open" /\ loadedFile["main"] = NoDoc
  /\ drops < MaxLoads
  /\ drops' = drops + 1
  /\ zipPending' = zipPending + 1
  /\ last' = Event("dropZip", "main", 0, {})
  /\ UNCHANGED <<segVars, bcAvailable, urlMode, zipFile, page, stored, navs, loadedFile, mdxVars,
                 inflight, channels, closeMsgs>>

\* DynamicMDX mounts in the primary window with document c: the effects write
\* localStorage, open the companion window when the URL has no mode parameter
\* (window name 'presenter': an open companion is reloaded), create the
\* channel and start the compilation
MountMain(c) ==
  LET opens == UrlMode("main") = "null" IN
  /\ stored' = c
  /\ page' = [page EXCEPT !["presenter"] = IF opens THEN "loading" ELSE @,
                          !["main"] = IF bcAvailable THEN "open" ELSE "crashed"]
  /\ loadedFile' = [loadedFile EXCEPT !["main"] = c, !["presenter"] = IF opens THEN NoDoc ELSE @]
  /\ pending' = [pending EXCEPT !["presenter"] = IF opens THEN {} ELSE @,
                                !["main"] = IF bcAvailable THEN {Request(1, c)} ELSE {}]
  /\ requested' = [requested EXCEPT !["presenter"] = IF opens THEN 0 ELSE @, !["main"] = 1]
  /\ MDXContent' = [MDXContent EXCEPT !["presenter"] = IF opens THEN NoDoc ELSE @, !["main"] = NoDoc]
  /\ error' = [error EXCEPT !["presenter"] = IF opens THEN NoDoc ELSE @, !["main"] = NoDoc]
  /\ currentSlideIndex' = [currentSlideIndex EXCEPT !["presenter"] = IF opens THEN 0 ELSE @, !["main"] = 0]
  /\ totalSlides' = [totalSlides EXCEPT !["presenter"] = IF opens THEN 0 ELSE @, !["main"] = 0]
  /\ scrollTop' = [scrollTop EXCEPT !["presenter"] = IF opens THEN 0 ELSE @, !["main"] = 0]
  /\ scrollTarget' = [scrollTarget EXCEPT !["presenter"] = IF opens THEN -1 ELSE @, !["main"] = -1]
  /\ listening' = [listening EXCEPT !["presenter"] = IF opens THEN FALSE ELSE @, !["main"] = FALSE]
  /\ inflight' = IF opens
                 THEN CloseChannel(CloseChannel(inflight, <<"presenter", "D">>),
                                   <<"presenter", "PV">>)
                 ELSE inflight
  /\ channels' = [channels EXCEPT ![<<"presenter", "D">>] = IF opens THEN 0 ELSE @,
                                  ![<<"presenter", "PV">>] = IF opens THEN 0 ELSE @,
                                  ![<<"main", "D">>] = IF bcAvailable THEN 1 ELSE 0]

\* the content prop of the mounted DynamicMDX changes: localStorage is
\* rewritten and compileMDX runs again (setError(null), then evaluate)
ContentChange(w, c) ==
  /\ stored' = c
  /\ loadedFile' = [loadedFile EXCEPT ![w] = c]
  /\ error' = [error EXCEPT ![w] = NoDoc]
  /\ requested' = [requested EXCEPT ![w] = @ + 1]
  /\ pending' = [pending EXCEPT ![w] = @ \cup {Request(requested[w] + 1, c)}]
  /\ scrollTop' = [scrollTop EXCEPT ![w] = IF error[w] # NoDoc THEN 0 ELSE @]
  /\ scrollTarget' = [scrollTarget EXCEPT ![w] = IF error[w] # NoDoc THEN -1 ELSE @]
  /\ UNCHANGED <<page, MDXContent, currentSlideIndex, totalSlides, listening, inflight,
                 channels>>

\* App.handleFileLoad, called when a processZipFile of the picker resolves
handleFileLoad(c) ==
  /\ zipPending > 0
  /\ zipPending' = zipPending - 1
  /\ last' = Event("handleFileLoad", "main", c, {})
  /\ IF page["main"] # "open"
     THEN UNCHANGED <<page, stored, loadedFile, mdxVars, inflight, channels>>
     ELSE IF loadedFile["main"] = NoDoc
     THEN MountMain(c)
     ELSE IF c # loadedFile["main"]
     THEN ContentChange("main", c)
     ELSE /\ stored' = c
          /\ UNCHANGED <<page, loadedFile, mdxVars, inflight, channels>>
  /\ UNCHANGED <<segVars, bcAvailable, urlMode, zipFile, drops, navs, closeMsgs>>

\* the user opens the application with ?mode=presenter in another tab
OpenTab ==
  /\ page["presenter2"] = "closed"
  /\ page' = [page EXCEPT !["presenter2"] = "loading"]
  /\ last' = Event("openTab", "presenter2", 0, {})
  /\ UNCHANGED <<segVars, bcAvailable, urlMode, zipFile, stored, zipPending, drops, navs, loadedFile,
                 mdxVars, inflight, channels, closeMsgs>>

\* a value of the key 'presentation-data' that JSON.parse rejects
Corrupt == -1

\* what App's mount effect makes of the value of the key: nothing for an
\* absent key (if (storedData)) and for a blob JSON.parse throws on (the catch
\* logs), the document otherwise
Parse(blob) == IF blob \in Docs THEN blob ELSE NoDoc

\* App's mount effect: in a window with ?mode=presenter or ?mode=presentation
\* the stored document, when there is one, becomes loadedFile and DynamicMDX
\* mounts; with any other parameter the file picker is shown
Startup(w) ==
  /\ page[w] = "loading"
  /\ last' = Event("startup", w, stored, {})
  /\ IF UrlMode(w) \notin {"presenter", "presentation"} \/ Parse(stored) = NoDoc
     THEN /\ page' = [page EXCEPT ![w] = "open"]
          /\ UNCHANGED <<loadedFile, pending, requested, channels>>
     ELSE /\ page' = [page EXCEPT ![w] = IF bcAvailable THEN "open" ELSE "crashed"]
          /\ loadedFile' = [loadedFile EXCEPT ![w] = Parse(stored)]
          /\ pending' = [pending EXCEPT ![w] =
                           IF bcAvailable THEN {Request(1, Parse(stored))} ELSE {}]
          /\ requested' = [requested EXCEPT ![w] = 1]
          /\ channels' = [channels EXCEPT ![<<w, "D">>] = IF bcAvailable THEN 1 ELSE 0]
  /\ UNCHANGED <<segVars, bcAvailable, urlMode, zipFile, stored, zipPending, drops, navs, MDXContent,
                 error, currentSlideIndex, totalSlides, scrollTop, scrollTarget,
                 listening, inflight, closeMsgs>>

\* the rejection branch of compileMDX that only logs the error
CompileRejectedLogged(w, r) ==
  /\ last' = Event("compileRejected", w, r.content, {})
  /\ UNCHANGED <<MDXContent, error, currentSlideIndex, totalSlides, scrollTop,
                 scrollTarget, listening, inflight, channels>>

\* the rejection branch of compileMDX: the error panel replaces the container
\* and the PresenterView
CompileRejected(w, r) ==
  /\ error' = [error EXCEPT ![w] = r.content]
  /\ listening' = [listening EXCEPT ![w] = FALSE]
  /\ scrollTop' = [scrollTop EXCEPT ![w] = 0]
  /\ scrollTarget' = [scrollTarget EXCEPT ![w] = -1]
  /\ inflight' = CloseChannel(inflight, <<w, "PV">>)
  /\ channels' = [channels EXCEPT ![<<w, "PV">>] = 0]
  /\ last' = Event("compileRejected", w, r.content, {})
  /\ UNCHANGED <<MDXContent, currentSlideIndex, totalSlides>>

\* the success branch of compileMDX and the effects keyed on MDXContent:
\* count the sections, attach handleScroll and call it once
CompileResolved(w, r) ==
  /\ MDXContent' = [MDXContent EXCEPT ![w] = r.content]
  /\ UNCHANGED error
  /\ IF error[w] # NoDoc
     THEN /\ last' = Event("compileResolved", w, r.content, {})
          /\ UNCHANGED <<currentSlideIndex, totalSlides, scrollTop, scrollTarget,
                         listening, inflight, channels>>
     ELSE LET n == SectionCount(r.content)
              y == IF MDXContent[w] = NoDoc THEN 0 ELSE Min(scrollTop[w], MaxScroll(n))
              cur == currentSlideIndex[w]
              index == handleScroll(w, n, y)
              pvNew == viewMode(w) = "presenter" /\ MDXContent[w] = NoDoc
              pv == viewMode(w) = "presenter"
              q1 == IF pvNew THEN PostMessage(inflight, <<w, "PV">>, cur) ELSE inflight
              q2 == IF pv /\ index # cur THEN Republish(q1, w, index) ELSE q1
              t == Min(scrollTarget[w], MaxScroll(n))
          IN /\ pvNew => HasRoom(inflight, <<w, "PV">>)
             /\ (pv /\ index # cur) => HasRoom(q1, <<w, "PV">>)
             /\ totalSlides' = [totalSlides EXCEPT ![w] = n]
             /\ currentSlideIndex' = [currentSlideIndex EXCEPT ![w] = index]
             /\ scrollTop' = [scrollTop EXCEPT ![w] = y]
             /\ scrollTarget' = [scrollTarget EXCEPT ![w] =
                  IF MDXContent[w] = NoDoc \/ scrollTarget[w] = -1 \/ t = y
                  THEN -1 ELSE t]
             /\ listening' = [listening EXCEPT ![w] = TRUE]
             /\ inflight' = q2
             /\ channels' =
                  IF pvNew THEN [channels EXCEPT ![<<w, "PV">>] = @ + 1]
                  ELSE IF pv /\ index # cur THEN Recreated(w)
                  ELSE channels
             /\ last' = Event("compileResolved", w, r.content,
                              (IF pvNew THEN {<<w, cur>>} ELSE {})
                                \cup (IF pv /\ index # cur THEN {<<w, index>>} ELSE {}))

\* an evaluate() call of compileMDX settles; its result is applied whatever
\* was requested since
CompileDone(w) ==
  /\ DMounted(w)
  /\ \E r \in pending[w] :
       /\ pending' = [pending EXCEPT ![w] = @ \ {r}]
       /\ IF CompileFails(r.content) THEN CompileRejected(w, r) ELSE CompileResolved(w, r)
  /\ UNCHANGED <<segVars, appVars, requested, closeMsgs>>

\* the channel objects left once the views of window w are gone, when no
\* cleanup closes a channel
ReleasedNone(w) == channels

\* the channel objects left once the views of window w are unmounted: the
\* cleanup of each view closes the object its ref holds
Released(w) ==
  [ch \in Chans |-> IF ch[1] = w /\ channels[ch] > 0 THEN channels[ch] - 1
                    ELSE channels[ch]]

\* the channel objects left once window w is closed: none of that window
Destroyed(w) == [ch \in Chans |-> IF ch[1] = w THEN 0 ELSE channels[ch]]

\* window w's DynamicMDX goes away (unmount, or the window closes): its state
\* is dropped, its listeners are detached and its channels closed
DropView(w, left) ==
  /\ pending' = [pending EXCEPT ![w] = {}]
  /\ requested' = [requested EXCEPT ![w] = 0]
  /\ MDXContent' = [MDXContent EXCEPT ![w] = NoDoc]
  /\ error' = [error EXCEPT ![w] = NoDoc]
  /\ currentSlideIndex' = [currentSlideIndex EXCEPT ![w] = 0]
  /\ totalSlides' = [totalSlides EXCEPT ![w] = 0]
  /\ scrollTop' = [scrollTop EXCEPT ![w] = 0]
  /\ scrollTarget' = [scrollTarget EXCEPT ![w] = -1]
  /\ listening' = [listening EXCEPT ![w] = FALSE]
  /\ channels' = left
  /\ inflight' = CloseChannel(CloseChannel(inflight, <<w, "D">>), <<w, "PV">>)

\* App.handleBack that removes the stored document and keeps loadedFile
handleBackKeepFile(w) ==
  /\ stored' = NoDoc
  /\ UNCHANGED <<loadedFile, mdxVars, inflight, channels>>

\* App.handleBack that goes back to the file picker and leaves the key
handleBackKeepKey(w) ==
  /\ loadedFile' = [loadedFile EXCEPT ![w] = NoDoc]
  /\ UNCHANGED stored
  /\ DropView(w, Released(w))

\* App.handleBack (the onBack prop): back to the file picker
handleBack(w) ==
  /\ loadedFile' = [loadedFile EXCEPT ![w] = NoDoc]
  /\ stored' = NoDoc
  /\ DropView(w, Released(w))

\* handleKeyDown of DynamicMDX: Escape calls onBack
EscapeKey(w) ==
  /\ ContainerMounted(w) /\ ~Hidden(w) /\ listening[w]
  /\ handleBack(w)
  /\ last' = Event("escape", w, currentSlideIndex[w], {})
  /\ UNCHANGED <<segVars, bcAvailable, urlMode, zipFile, page, zipPending, drops, navs, closeMsgs>>

\* the button of the error panel calls onBack
ErrorBack(w) ==
  /\ DMounted(w) /\ error[w] # NoDoc
  /\ handleBack(w)
  /\ last' = Event("errorBack", w, 0, {})
  /\ UNCHANGED <<segVars, bcAvailable, urlMode, zipFile, page, zipPending, drops, navs, closeMsgs>>

\* window.opener of window w: the companion was opened by the primary
\* window, the tab by the user
HasOpener(w) == w = "presenter"

\* PresenterView.handleBack (the close button of the console): post
\* CLOSE_PRESENTATION to the opener, if any, then window.close(), which a
\* browser honours (closed) or ignores for a window no script opened; an
\* ignored close without an opener leaves everything as it was
PresenterBack(w, closed) ==
  /\ PVMounted(w)
  /\ HasOpener(w) => closed
  /\ closeMsgs' = IF HasOpener(w) THEN closeMsgs + 1 ELSE closeMsgs
  /\ IF closed
     THEN /\ last' = Event("presenterBack", w, 0, {})
          /\ page' = [page EXCEPT ![w] = "closed"]
          /\ loadedFile' = [loadedFile EXCEPT ![w] = NoDoc]
          /\ DropView(w, Destroyed(w))
     ELSE UNCHANGED <<page, loadedFile, mdxVars, inflight, channels, last>>
  /\ UNCHANGED <<segVars, bcAvailable, urlMode, zipFile, stored, zipPending, drops, navs>>

\* the message event of the primary window: handleMessage of its DynamicMDX,
\* when one is mounted, calls onBack
DeliverClose ==
  /\ closeMsgs > 0
  /\ closeMsgs' = closeMsgs - 1
  /\ last' = Event("deliverClose", "main", loadedFile["main"], {})
  /\ IF DMounted("main")
     THEN handleBack("main")
     ELSE UNCHANGED <<stored, loadedFile, mdxVars, inflight, channels>>
  /\ UNCHANGED <<segVars, bcAvailable, urlMode, zipFile, page, zipPending, drops, navs>>

(***************************************************************************)
(* Specifications                                                          *)
(***************************************************************************)
SegIdle ==
  /\ rootChildren = <<>>
  /\ tree = [children |-> <<>>]
  /\ segPc = "idle"

ViewInit ==
  /\ page = [w \in Windows |-> IF w = "main" THEN "open" ELSE "closed"]
  /\ stored = NoDoc
  /\ zipPending = 0
  /\ drops = 0
  /\ navs = 0
  /\ loadedFile = [w \in Windows |-> NoDoc]
  /\ pending = [w \in Windows |-> {}]
  /\ requested = [w \in Windows |-> 0]
  /\ MDXContent = [w \in Windows |-> NoDoc]
  /\ error = [w \in Windows |-> NoDoc]
  /\ currentSlideIndex = [w \in Windows |-> 0]
  /\ totalSlides = [w \in Windows |-> 0]
  /\ scrollTop = [w \in Windows |-> 0]
  /\ scrollTarget = [w \in Windows |-> -1]
  /\ listening = [w \in Windows |-> FALSE]
  /\ inflight = [ch \in Chans |-> EmptyQ]
  /\ channels = [ch \in Chans |-> IF OwnerMounted(ch) THEN 1 ELSE 0]
  /\ closeMsgs = 0
  /\ last = NoEvent

Init ==
  /\ SegIdle
  /\ bcAvailable \in BOOLEAN
  /\ urlMode = SessionModes
  /\ zipFile = <<>>
  /\ ViewInit

Next ==
  \/ DropZip
  \/ \E c \in Docs : handleFileLoad(c)
  \/ OpenTab
  \/ \E w \in Windows : Startup(w)
  \/ \E w \in Windows : CompileDone(w)
  \/ \E w \in Windows : \E i \in MsgIdx : DeliverD(w, i)
  \/ \E w \in Windows : \E i \in MsgIdx : DeliverPV(w, i)
  \/ \E w \in Windows : \E dir \in {-1, 1} : PresenterGoTo(w, dir)
  \/ \E w \in Windows : \E y \in 0..MaxScroll(3) : UserScroll(w, y)
  \/ \E w \in Windows : \E y \in 0..MaxScroll(3) : ScrollFrame(w, y)
  \/ \E w \in Windows : \E dir \in {-1, 1} : ArrowKey(w, dir)
  \/ \E w \in Windows : EscapeKey(w)
  \/ \E w \in Windows : ErrorBack(w)
  \/ \E w \in Windows : \E closed \in BOOLEAN : PresenterBack(w, closed)
  \/ DeliverClose

Spec == Init /\ [][Next]_vars

\* all three windows show document 1, compiled, and the mount-time messages
\* of the consoles have been delivered
SyncInit ==
  /\ SegIdle
  /\ bcAvailable = TRUE
  /\ urlMode = SessionModes
  /\ zipFile = <<>>
  /\ page = [w \in Windows |-> "open"]
  /\ stored = 1
  /\ zipPending = 0
  /\ drops = 1
  /\ navs = 0
  /\ loadedFile = [w \in Windows |-> 1]
  /\ pending = [w \in Windows |-> {}]
  /\ requested = [w \in Windows |-> 1]
  /\ MDXContent = [w \in Windows |-> 1]
  /\ error = [w \in Windows |-> NoDoc]
  /\ currentSlideIndex = [w \in Windows |-> 0]
  /\ totalSlides = [w \in Windows |-> SectionCount(1)]
  /\ scrollTop = [w \in Windows |-> 0]
  /\ scrollTarget = [w \in Windows |-> -1]
  /\ listening = [w \in Windows |-> TRUE]
  /\ inflight = [ch \in Chans |-> EmptyQ]
  /\ channels = [ch \in Chans |-> IF OwnerMounted(ch) THEN 1 ELSE 0]
  /\ closeMsgs = 0
  /\ last = NoEvent

SyncNext ==
  \/ \E w \in Windows : \E i \in MsgIdx : DeliverD(w, i)
  \/ \E w \in Windows : \E i \in MsgIdx : DeliverPV(w, i)
  \/ \E w \in Windows : \E dir \in {-1, 1} : PresenterGoTo(w, dir)

SyncSpec == SyncInit /\ [][SyncNext]_vars

\* all three windows show document 2, compiled, and the mount-time messages
\* of the consoles have been delivered
SessionInit ==
  /\ SegIdle
  /\ bcAvailable = TRUE
  /\ urlMode = SessionModes
  /\ zipFile = <<>>
  /\ page = [w \in Windows |-> "open"]
  /\ stored = 2
  /\ zipPending = 0
  /\ drops = 1
  /\ navs = 0
  /\ loadedFile = [w \in Windows |-> 2]
  /\ pending = [w \in Windows |-> {}]
  /\ requested = [w \in Windows |-> 1]
  /\ MDXContent = [w \in Windows |-> 2]
  /\ error = [w \in Windows |-> NoDoc]
  /\ currentSlideIndex = [w \in Windows |-> 0]
  /\ totalSlides = [w \in Windows |-> SectionCount(2)]
  /\ scrollTop = [w \in Windows |-> 0]
  /\ scrollTarget = [w \in Windows |-> -1]
  /\ listening = [w \in Windows |-> TRUE]
  /\ inflight = [ch \in Chans |-> EmptyQ]
  /\ channels = [ch \in Chans |-> IF OwnerMounted(ch) THEN 1 ELSE 0]
  /\ closeMsgs = 0
  /\ last = NoEvent

\* a navigation command in a session that is about to end
SessionGoTo(w, dir) == navs < MaxSessionNav /\ PresenterGoTo(w, dir)

\* a running session of the three windows, up to its end: the consoles
\* navigate and are dismissed, the primary window goes back to the picker
SessionNext ==
  \/ \E w \in Windows : \E i \in MsgIdx : DeliverD(w, i)
  \/ \E w \in Windows : \E i \in MsgIdx : DeliverPV(w, i)
  \/ \E w \in Windows : \E dir \in {-1, 1} : SessionGoTo(w, dir)
  \/ \E w \in Windows : EscapeKey(w)
  \/ \E w \in Windows : \E closed \in BOOLEAN : PresenterBack(w, closed)
  \/ DeliverClose

SessionSpec == SessionInit /\ [][SessionNext]_vars

\* the three windows while the consoles navigate and nobody leaves
EchoSpec == SessionInit /\ [][SyncNext]_vars

\* the primary window and its companion show document 1, compiled; no second
\* console is open
PairInit ==
  /\ SegIdle
  /\ bcAvailable = TRUE
  /\ urlMode = SessionModes
  /\ zipFile = <<>>
  /\ page = [w \in Windows |-> IF w = "presenter2" THEN "closed" ELSE "open"]
  /\ stored = 1
  /\ zipPending = 0
  /\ drops = 1
  /\ navs = 0
  /\ loadedFile = [w \in Windows |-> IF w = "presenter2" THEN NoDoc ELSE 1]
  /\ pending = [w \in Windows |-> {}]
  /\ requested = [w \in Windows |-> IF w = "presenter2" THEN 0 ELSE 1]
  /\ MDXContent = [w \in Windows |-> IF w = "presenter2" THEN NoDoc ELSE 1]
  /\ error = [w \in Windows |-> NoDoc]
  /\ currentSlideIndex = [w \in Windows |-> 0]
  /\ totalSlides = [w \in Windows |-> IF w = "presenter2" THEN 0 ELSE SectionCount(1)]
  /\ scrollTop = [w \in Windows |-> 0]
  /\ scrollTarget = [w \in Windows |-> -1]
  /\ listening = [w \in Windows |-> w # "presenter2"]
  /\ inflight = [ch \in Chans |-> EmptyQ]
  /\ channels = [ch \in Chans |-> IF OwnerMounted(ch) THEN 1 ELSE 0]
  /\ closeMsgs = 0
  /\ last = NoEvent

PairNext ==
  \/ \E w \in Windows : \E i \in MsgIdx : DeliverD(w, i)
  \/ \E w \in Windows : \E dir \in {-1, 1} : PresenterGoTo(w, dir)

PairSpec == PairInit /\ [][PairNext]_vars

\* the primary window follows its companion: the console navigates, the
\* primary window jumps and its container scrolls
NavNext ==
  \/ \E w \in Windows : \E i \in MsgIdx : DeliverD(w, i)
  \/ \E w \in Windows : \E dir \in {-1, 1} : PresenterGoTo(w, dir)
  \/ \E w \in Windows : \E y \in 0..MaxScroll(3) : UserScroll(w, y)
  \/ \E w \in Windows : \E y \in 0..MaxScroll(3) : ScrollFrame(w, y)

NavSpec == PairInit /\ [][NavNext]_vars

\* the event loop runs every queued message task
PairFairness == \A w \in Windows : \A i \in MsgIdx : WF_vars(DeliverD(w, i))

PairFairSpec == PairSpec /\ PairFairness

\* the primary window and its companion, from the file picker on; nobody
\* navigates in the companion
ViewNext ==
  \/ DropZip
  \/ \E c \in Docs : handleFileLoad(c)
  \/ Startup("presenter")
  \/ \E w \in Windows : CompileDone(w)
  \/ \E w \in Windows : \E i \in MsgIdx : DeliverD(w, i)
  \/ \E w \in Windows : \E y \in 0..MaxScroll(3) : UserScroll(w, y)
  \/ \E w \in Windows : \E y \in 0..MaxScroll(3) : ScrollFrame(w, y)
  \/ \E w \in Windows : \E dir \in {-1, 1} : ArrowKey(w, dir)

ViewSpec == Init /\ [][ViewNext]_vars

\* the primary window at the file picker; MaxArchives archives have been
\* dropped and are being read
ReloadInit ==
  /\ SegIdle
  /\ bcAvailable = TRUE
  /\ urlMode = SessionModes
  /\ zipFile = <<>>
  /\ page = [w \in Windows |-> IF w = "main" THEN "open" ELSE "closed"]
  /\ stored = NoDoc
  /\ zipPending = MaxArchives
  /\ drops = MaxArchives
  /\ navs = 0
  /\ loadedFile = [w \in Windows |-> NoDoc]
  /\ pending = [w \in Windows |-> {}]
  /\ requested = [w \in Windows |-> 0]
  /\ MDXContent = [w \in Windows |-> NoDoc]
  /\ error = [w \in Windows |-> NoDoc]
  /\ currentSlideIndex = [w \in Windows |-> 0]
  /\ totalSlides = [w \in Windows |-> 0]
  /\ scrollTop = [w \in Windows |-> 0]
  /\ scrollTarget = [w \in Windows |-> -1]
  /\ listening = [w \in Windows |-> FALSE]
  /\ inflight = [ch \in Chans |-> EmptyQ]
  /\ channels = [ch \in Chans |-> 0]
  /\ closeMsgs = 0
  /\ last = NoEvent

ReloadNext ==
  \/ \E c \in Docs : handleFileLoad(c)
  \/ \E w \in Windows : CompileDone(w)
  \/ \E w \in Windows : \E y \in 0..MaxScroll(3) : UserScroll(w, y)
  \/ \E w \in Windows : \E y \in 0..MaxScroll(3) : ScrollFrame(w, y)
  \/ \E w \in Windows : \E dir \in {-1, 1} : ArrowKey(w, dir)
  \/ \E w \in Windows : EscapeKey(w)
  \/ \E w \in Windows : ErrorBack(w)

ReloadSpec == ReloadInit /\ [][ReloadNext]_vars

SegInit ==
  /\ rootChildren \in RootInputs
  /\ tree = [children |-> rootChildren]
  /\ segPc = "parsed"
  /\ bcAvailable = TRUE
  /\ urlMode = SessionModes
  /\ zipFile = <<>>
  /\ ViewInit

\* the transformer returned by remarkSlides() runs on the parsed tree
RunRemarkSlides ==
  /\ segPc = "parsed"
  /\ tree' = [tree EXCEPT !.children = remarkSlides(tree.children)]
  /\ segPc' = "segmented"
  /\ UNCHANGED <<rootChildren, viewVars>>

\* the transformer runs once more, on the tree it has rewritten
RunAgain ==
  /\ segPc = "segmented"
  /\ tree' = [tree EXCEPT !.children = remarkSlides(tree.children)]
  /\ segPc' = "fedBack"
  /\ UNCHANGED <<rootChildren, viewVars>>

SegNext == RunRemarkSlides \/ RunAgain

SegSpec == SegInit /\ [][SegNext]_vars

(***************************************************************************)
(* Claims about the segmenter, checked under SegSpec                       *)
(***************************************************************************)
IsBreakNode(n) == n.type = "thematicBreak"
NonBreaks(s) == SelectSeq(s, LAMBDA n : ~IsBreakNode(n))

RECURSIVE Flatten(_)
Flatten(units) ==
  IF units = <<>> THEN <<>> ELSE Head(units).children \o Flatten(Tail(units))

\* positions where a maximal run of non-break root nodes starts
RunStarts(s) ==
  { i \in 1..Len(s) : ~IsBreakNode(s[i]) /\ (i = 1 \/ IsBreakNode(s[i - 1])) }

\* s[a..b] is a maximal run of consecutive non-break nodes of s
IsMaximalRun(s, a, b) ==
  /\ 1 <= a /\ a <= b /\ b <= Len(s)
  /\ \A i \in a..b : ~IsBreakNode(s[i])
  /\ (a = 1 \/ IsBreakNode(s[a - 1]))
  /\ (b = Len(s) \/ IsBreakNode(s[b + 1]))

Units == tree.children

\* C1: the segmenter returns, in document order, exactly one Slide unit per
\* maximal run of consecutive non-break root nodes, whose children are that
\* run; the units' children concatenated are the root children without the
\* root-level breaks, and no break is a root child or a unit child of the output.
C1_OneUnitPerMaximalRun ==
  segPc = "segmented" =>
    /\ Len(Units) = Cardinality(RunStarts(rootChildren))
    /\ Flatten(Units) = NonBreaks(rootChildren)
    /\ \A k \in 1..Len(Units) :
         /\ Units[k].type = "mdxJsxFlowElement" /\ Units[k].name = "Slide"
         /\ \A j \in 1..Len(Units[k].children) : ~IsBreakNode(Units[k].children[j])
         /\ \E a \in 1..Len(rootChildren) : \E b \in a..Len(rootChildren) :
              /\ IsMaximalRun(rootChildren, a, b)
              /\ Units[k].children = SubSeq(rootChildren, a, b)

\* A, ---, B, A : two runs of different lengths
C1_Witness ==
  /\ segPc = "segmented"
  /\ rootChildren = <<Paragraph("A"), ThematicBreak, Paragraph("B"), Paragraph("A")>>
  /\ Len(Units) = 2
  /\ Units[2].children = <<Paragraph("B"), Paragraph("A")>>

HasNoRootBreak(s) == \A i \in 1..Len(s) : ~IsBreakNode(s[i])

\* C8 as stated: every document without a root-level break yields exactly one
\* Slide unit holding every root child in order.
C8_ZeroBreaksOneUnit ==
  (segPc = "segmented" /\ HasNoRootBreak(rootChildren)) =>
    /\ Len(Units) = 1
    /\ Units[1].children = rootChildren

\* C8 amended: every NON-EMPTY document without a root-level break yields
\* exactly one Slide unit holding every root child in order; the empty
\* document yields no unit.
C8_NonEmptyZeroBreaksOneUnit ==
  (segPc = "segmented" /\ HasNoRootBreak(rootChildren)) =>
    IF rootChildren = <<>> THEN Units = <<>>
    ELSE /\ Len(Units) = 1
         /\ Units[1].children = rootChildren

C8_Witness ==
  /\ segPc = "segmented"
  /\ HasNoRootBreak(rootChildren)
  /\ Len(rootChildren) = 3
  /\ Len(Units) = 1

\* C9: the segmenter never emits a Slide unit without children; a document of
\* thematic breaks only, and the empty document, yield zero units.
C9_NoEmptyUnit ==
  segPc = "segmented" =>
    /\ \A k \in 1..Len(Units) : Len(Units[k].children) > 0
    /\ (\A i \in 1..Len(rootChildren) : IsBreakNode(rootChildren[i])) => Units = <<>>

\* ---, ---, A, --- : a leading break, consecutive breaks and a trailing break
C9_Witness ==
  /\ segPc = "segmented"
  /\ rootChildren = <<ThematicBreak, ThematicBreak, Paragraph("A"), ThematicBreak>>
  /\ Len(Units) = 1

\* the document with the thematic breaks nested one level down removed
StripNested(s) ==
  [ i \in 1..Len(s) |->
      [s[i] EXCEPT !.children = SelectSeq(@, LAMBDA n : ~IsBreakNode(n))] ]

HasNestedBreak(n) == \E j \in 1..Len(n.children) : IsBreakNode(n.children[j])

\* C10: only root-level breaks split: a node holding a nested break stays,
\* unchanged, a child of its unit, and the number of units equals that of the
\* same document with the nested breaks removed (A, ---, quote(---) gives 2).
C10_NestedBreaksInert ==
  segPc = "segmented" =>
    /\ Len(Units) = Len(remarkSlides(StripNested(rootChildren)))
    /\ \A i \in 1..Len(rootChildren) :
         HasNestedBreak(rootChildren[i]) =>
           \E k \in 1..Len(Units) : \E j \in 1..Len(Units[k].children) :
             Units[k].children[j] = rootChildren[i]
    /\ rootChildren = <<Paragraph("A"), ThematicBreak,
                        Container("blockquote", "quote", <<ThematicBreak>>)>>
         => Len(Units) = 2

C10_Witness ==
  /\ segPc = "segmented"
  /\ rootChildren = <<Paragraph("A"), ThematicBreak,
                      Container("blockquote", "quote", <<ThematicBreak>>)>>
  /\ Len(Units) = 2
  /\ Units[2].children = <<Container("blockquote", "quote", <<ThematicBreak>>)>>

IsSlide(n) == n.type = "mdxJsxFlowElement" /\ n.name = "Slide"

\* C11 as stated: for every input document, segmenting the output of the
\* segmenter (Slide containers, no breaks) yields a single unit wrapping all
\* the units.
C11_FedBackWrapsOnce ==
  [][(segPc = "segmented" /\ segPc' = "fedBack") =>
       /\ Len(tree'.children) = 1
       /\ IsSlide(tree'.children[1])
       /\ tree'.children[1].children = tree.children]_vars

\* C11 amended: for every input document that yields at least one unit,
\* segmenting the output yields a single unit wrapping all the units; for a
\* document that yields no unit (empty, or breaks only) it yields no unit.
C11_FedBackWrapsOnceUnlessEmpty ==
  [][(segPc = "segmented" /\ segPc' = "fedBack") =>
       IF tree.children = <<>> THEN tree'.children = <<>>
       ELSE /\ Len(tree'.children) = 1
            /\ IsSlide(tree'.children[1])
            /\ tree'.children[1].children = tree.children]_vars

\* A, ---, B fed back: one unit wrapping the two units
C11_Witness ==
  /\ segPc = "fedBack"
  /\ rootChildren = <<Paragraph("A"), ThematicBreak, Paragraph("B")>>
  /\ Len(tree.children) = 1
  /\ tree.children[1].children =
       <<SlideNode(<<Paragraph("A")>>), SlideNode(<<Paragraph("B")>>)>>

\* C12: the segmentation pass has no side effect: its output is determined
\* by the input, and after the pass the input tree still has the root
\* children the parser gave it.
C12_InputTreeUnchanged ==
  segPc = "segmented" =>
    /\ \A k \in 1..Len(Units) : IsSlide(Units[k])
    /\ tree = [children |-> rootChildren]

(***************************************************************************)
(* Claims about the sync channel, checked under SyncSpec / PairFairSpec    *)
(***************************************************************************)
Delivered == last.op \in DeliverOps

\* C2: a SlideChange(i) delivered to a view in which slide i exists sets that
\* view's index to i, and the view posts no SlideChange(i) because of the
\* delivery, be the receiver the presentation view or a presenter console.
C2_DeliveryWithoutEcho ==
  (Delivered /\ last.idx < Sections(last.win)) =>
    /\ currentSlideIndex[last.win] = last.idx
    /\ <<last.win, last.idx>> \notin last.posted

NothingInFlight == \A ch \in Chans : inflight[ch] = EmptyQ

\* C3: once the users stop navigating, the exchange of SlideChange messages
\* ends: from some point on no message is in flight.
C3_ExchangeTerminates == <>[]NothingInFlight

\* a message in flight can always be delivered: the run never stalls on a
\* full queue, so an endless run is an endless exchange
C3_NoStall ==
  NothingInFlight \/ \E w \in Windows : \E i \in MsgIdx : ENABLED DeliverD(w, i)

\* C13: a SlideChange(i) for an existing slide i that is delivered to a view
\* right after an identical one finds the index at i, leaves it at i, and
\* changes nothing else of the view's state (scroll position, scroll target,
\* slide count, document, error); nor does the view post anything.
C13_RepeatedDeliveryNoOp ==
  [][\A w \in Windows :
       (/\ last'.op \in DeliverOps /\ last'.win = w /\ last'.again
        /\ last'.idx < Sections(w))
       => /\ currentSlideIndex[w] = last'.idx
          /\ currentSlideIndex'[w] = last'.idx
          /\ scrollTop'[w] = scrollTop[w]
          /\ scrollTarget'[w] = scrollTarget[w]
          /\ totalSlides'[w] = totalSlides[w]
          /\ MDXContent'[w] = MDXContent[w]
          /\ error'[w] = error[w]
          /\ last'.posted = {}]_vars

\* the primary window got SlideChange(1) twice in a row
C13_Witness ==
  /\ last.op = "deliverD" /\ last.win = "main" /\ last.idx = 1 /\ last.again
  /\ currentSlideIndex["main"] = 1
  /\ scrollTarget["main"] = ViewportHeight

(***************************************************************************)
(* Claims about the end of a session, checked under SessionSpec            *)
(***************************************************************************)
\* C14: dismissing a presenter console posts nothing on the broadcast
\* channel and, when the console has an opener, posts one CLOSE_PRESENTATION
\* to the opener; once that message is handled in the primary window, the
\* primary window is in its initial state: no loaded file, no stored
\* document, the file picker shown.
C14_ClosePresentationResetsMain ==
  [][/\ last'.op = "presenterBack" =>
          /\ \A ch \in Chans : \A i \in MsgIdx : inflight'[ch][i] <= inflight[ch][i]
          /\ last'.posted = {}
          /\ closeMsgs' = IF HasOpener(last'.win) THEN closeMsgs + 1 ELSE closeMsgs
     /\ last'.op = "deliverClose" =>
          /\ loadedFile'["main"] = NoDoc
          /\ stored' = NoDoc
          /\ page'["main"] = "open"
          /\ MDXContent'["main"] = NoDoc]_vars

\* the primary window showed document 1 when CLOSE_PRESENTATION arrived
C14_Witness ==
  /\ last.op = "deliverClose" /\ last.idx = 2
  /\ page["presenter"] = "closed"
  /\ loadedFile["main"] = NoDoc
  /\ closeMsgs = 0

\* C15: no channel object created by a view that is not mounted (any more)
\* is open.
C15_ChannelsClosedOnUnmount ==
  \A ch \in Chans : ~OwnerMounted(ch) => channels[ch] = 0

\* the primary window was on slide 1 when Escape unmounted its DynamicMDX,
\* and a console that had navigated was dismissed
C15_Witness ==
  /\ last.op = "escape" /\ last.win = "main" /\ last.idx = 1
  /\ ~DMounted("main")
  /\ channels[<<"main", "D">>] = 0
  /\ page["presenter"] = "closed"
  /\ channels[<<"presenter", "PV">>] = 0

(***************************************************************************)
(* Claims about the index tracker, checked under ReloadSpec                *)
(***************************************************************************)
ScrollOps == {"scroll", "scrollFrame"}

\* the sections of window w (n in all) whose top edge, at scroll position y,
\* lies in [0, ViewportHeight / 2)
Qualifying(w, n, y) ==
  { k \in 0..(n - 1) : RectTop(w, k, y) >= 0 /\ 2 * RectTop(w, k, y) < ViewportHeight }

\* the boundary-crossing policy: the first qualifying section, else prev
PolicyIndex(w, n, y, prev) ==
  IF Qualifying(w, n, y) = {} THEN prev
  ELSE CHOOSE k \in Qualifying(w, n, y) : \A j \in Qualifying(w, n, y) : k <= j

\* C16: on every scroll event of the container, and when the container
\* mounts, the index becomes the first section whose top edge lies in
\* [0, ViewportHeight / 2), or stays what it was when no section qualifies;
\* it never becomes -1.
C16_TrackerPolicy ==
  [][\A w \in Windows :
       /\ (last'.op \in ScrollOps /\ last'.win = w) =>
            currentSlideIndex'[w] =
              PolicyIndex(w, Sections(w), scrollTop'[w], currentSlideIndex[w])
       /\ (~ContainerMounted(w) /\ ContainerMounted(w)') =>
            currentSlideIndex'[w] =
              PolicyIndex(w, Sections(w)', scrollTop'[w], currentSlideIndex[w])
       /\ currentSlideIndex'[w] # -1]_vars

\* C17: with n full-viewport sections and the viewport scrolled exactly to
\* the top of section k, handleScroll yields index k: for every attached
\* handler after a scroll event, and for the policy evaluated on up to
\* MaxSections sections (5 sections at the top of section 2 give 2).
C17_TopOfSectionYieldsIt ==
  /\ \A w \in Windows : \A k \in 0..(Sections(w) - 1) :
       (/\ last.op \in ScrollOps /\ last.win = w
        /\ listening[w]
        /\ scrollTop[w] = k * ViewportHeight)
       => currentSlideIndex[w] = k
  /\ \A n \in 1..MaxSections : \A k \in 0..(n - 1) :
       handleScroll("main", n, k * ViewportHeight) = k

\* the primary window, showing three slides, was scrolled to the top of
\* the last one while the first was the current slide
C17_Witness ==
  /\ last.op = "scroll" /\ last.win = "main" /\ last.idx = 2
  /\ listening["main"]
  /\ Sections("main") = 3
  /\ scrollTop["main"] = 2 * ViewportHeight
  /\ currentSlideIndex["main"] = 2

UserOps == {"scroll", "scrollFrame", "arrowKey", "escape", "errorBack",
            "presenterGoTo", "presenterBack"}

\* C20: a rejected compilation puts the view in the error state, showing the
\* message of the rejected document; in the error state the only thing the
\* user can do in the view is onBack; no compilation starts unless the
\* content changes; and the view leaves the error state, or changes the
\* message, only when the content changes or onBack is called.
C20_ErrorStatePersists ==
  [][\A w \in Windows :
       /\ (last'.op = "compileRejected" /\ last'.win = w) =>
            (error'[w] = last'.idx /\ Shows(w)' = "error")
       /\ Shows(w) = "error" =>
            /\ (last'.win = w /\ last'.op \in UserOps) => last'.op = "errorBack"
            /\ ~(pending'[w] \subseteq pending[w]) =>
                 (last'.op = "handleFileLoad" /\ loadedFile'[w] # loadedFile[w])
            /\ (Shows(w)' # "error" \/ error'[w] # error[w]) =>
                 \/ last'.op = "handleFileLoad" /\ loadedFile'[w] # loadedFile[w]
                 \/ last'.op \in {"errorBack", "deliverClose"} /\ Shows(w)' = "picker"]_vars

\* the error panel of the primary window outlived the completion of another
\* compilation
C20_Witness ==
  /\ last.op = "compileResolved" /\ last.win = "main"
  /\ Shows("main") = "error"
  /\ error["main"] = 3
  /\ MDXContent["main"] # NoDoc
  /\ pending["main"] = {}

(***************************************************************************)
(* Claims about programmatic navigation, checked under NavSpec             *)
(***************************************************************************)
JumpOps == {"deliverD", "deliverPV", "presenterGoTo"}

\* C18: goToSlide(i) for an existing section i sets the index to i in the
\* same step that starts the smooth scroll towards section i: the scroll
\* position has not moved yet, no scroll event has been handled, and a
\* visible container that is not at section i has section i as its target.
C18_JumpSetsIndexAtOnce ==
  [][\A w \in Windows :
       (/\ last'.op \in JumpOps /\ last'.win = w
        /\ ContainerMounted(w)
        /\ last'.idx >= 0 /\ last'.idx < Sections(w))
       => /\ currentSlideIndex'[w] = last'.idx
          /\ scrollTop'[w] = scrollTop[w]
          /\ (~Hidden(w) /\ scrollTop[w] # last'.idx * ViewportHeight)
               => scrollTarget'[w] = last'.idx * ViewportHeight]_vars

\* the primary window jumped from slide 0 to slide 1: the index is 1 while
\* the container is still at the top
C18_Witness ==
  /\ last.op = "deliverD" /\ last.win = "main" /\ last.idx = 1
  /\ currentSlideIndex["main"] = 1
  /\ scrollTop["main"] = 0
  /\ scrollTarget["main"] = ViewportHeight

(***************************************************************************)
(* Claims about one view, checked under ViewSpec                           *)
(***************************************************************************)
\* C4: every view posts a SlideChange with its new index whenever a scroll or
\* a navigation changes its slide index (and listens on its own channel).
C4_EveryViewPublishes ==
  [][\A w \in Windows :
       (/\ last'.op \in {"scroll", "scrollFrame", "presenterGoTo"}
        /\ last'.win = w
        /\ currentSlideIndex'[w] # currentSlideIndex[w])
       => (<<w, currentSlideIndex'[w]>> \in last'.posted /\ <<w, "D">> \in OpenChans)]_vars

\* C5: a view with at least one slide has 0 <= currentSlideIndex < totalSlides.
C5_IndexInRange ==
  \A w \in Windows :
    (DMounted(w) /\ totalSlides[w] > 0) =>
      (0 <= currentSlideIndex[w] /\ currentSlideIndex[w] < totalSlides[w])

\* C6: once every compilation has settled, the rendered document and the
\* error state are those of the content requested last.
C6_LatestRequestWins ==
  \A w \in Windows :
    (DMounted(w) /\ pending[w] = {}) =>
      IF CompileFails(loadedFile[w])
      THEN error[w] = loadedFile[w]
      ELSE MDXContent[w] = loadedFile[w] /\ error[w] = NoDoc

\* C19: a view with a compilation in flight shows the loading screen, also
\* when it holds the rendered output of an earlier compilation.
C19_LoadingWhileCompiling ==
  \A w \in Windows :
    (DMounted(w) /\ pending[w] # {}) => Shows(w) = "loading"

\* C7: without a broadcast medium no view crashes; a view that was given a
\* document stays mounted.
C7_NoCrashWithoutMedium ==
  ~bcAvailable =>
    \A w \in Windows :
      /\ page[w] # "crashed"
      /\ (last.op \in {"handleFileLoad", "startup"} /\ last.win = w /\ last.idx # NoDoc)
           => DMounted(w)

(***************************************************************************)
(* The hand-over of the document through localStorage: the primary window  *)
(* loads archives, the companion and a tab start from the key, every view  *)
(* can be reset. The key may hold a leftover blob when the session starts. *)
(***************************************************************************)
StoreInit ==
  /\ SegIdle
  /\ bcAvailable = TRUE
  /\ urlMode = SessionModes
  /\ zipFile = <<>>
  /\ page = [w \in Windows |-> IF w = "main" THEN "open" ELSE "closed"]
  /\ stored \in {NoDoc, Corrupt}
  /\ zipPending = MaxStoreLoads
  /\ drops = MaxStoreLoads
  /\ navs = 0
  /\ loadedFile = [w \in Windows |-> NoDoc]
  /\ pending = [w \in Windows |-> {}]
  /\ requested = [w \in Windows |-> 0]
  /\ MDXContent = [w \in Windows |-> NoDoc]
  /\ error = [w \in Windows |-> NoDoc]
  /\ currentSlideIndex = [w \in Windows |-> 0]
  /\ totalSlides = [w \in Windows |-> 0]
  /\ scrollTop = [w \in Windows |-> 0]
  /\ scrollTarget = [w \in Windows |-> -1]
  /\ listening = [w \in Windows |-> FALSE]
  /\ inflight = [ch \in Chans |-> EmptyQ]
  /\ channels = [ch \in Chans |-> 0]
  /\ closeMsgs = 0
  /\ last = [op |-> "none", win |-> "main", idx |-> 0, posted |-> {}, again |-> FALSE]

StoreNext ==
  \/ \E c \in Docs : handleFileLoad(c)
  \/ OpenTab
  \/ \E w \in Windows : Startup(w)
  \/ \E w \in Windows : CompileDone(w)
  \/ \E w \in Windows : \E i \in MsgIdx : DeliverD(w, i)
  \/ \E w \in Windows : \E i \in MsgIdx : DeliverPV(w, i)
  \/ \E w \in Windows : EscapeKey(w)
  \/ \E w \in Windows : ErrorBack(w)
  \/ \E w \in Windows : \E closed \in BOOLEAN : PresenterBack(w, closed)
  \/ DeliverClose

StoreSpec == StoreInit /\ [][StoreNext]_vars

(***************************************************************************)
(* Claims about the stored document, checked under StoreSpec               *)
(***************************************************************************)
\* the steps in which onBack runs
ResetDone ==
  \/ last'.op \in {"escape", "errorBack"}
  \/ last'.op = "deliverClose" /\ DMounted("main")

\* C21: the document crosses windows through the one key 'presentation-data':
\* a load in the primary window writes it, and the companion window is opened
\* with the key already written; the startup of a view in presenter or
\* presentation mode reads it and loads a document exactly when the key holds
\* a parseable blob, without changing the key; a reset (onBack) deletes it and
\* leaves it absent; no other step changes the key
C21_SingleKeyHandOver ==
  [][/\ (last'.op = "handleFileLoad" /\ page["main"] = "open")
         => /\ stored' = last'.idx
            /\ stored' = loadedFile'["main"]
     /\ (last'.op = "handleFileLoad" /\ page'["presenter"] = "loading"
          /\ loadedFile["presenter"] # loadedFile'["presenter"])
         => stored' \in Docs
     /\ \A w \in Windows :
          (last'.op = "startup" /\ last'.win = w)
          => /\ stored' = stored
             /\ (loadedFile'[w] # NoDoc) = (stored \in Docs)
             /\ stored \in Docs => loadedFile'[w] = stored
     /\ ResetDone => stored' = NoDoc
     /\ stored' # stored => (last'.op = "handleFileLoad" \/ ResetDone)
    ]_vars

\* the console started from the key, then the primary window was reset
C21_Witness ==
  /\ last.op = "escape" /\ last.win = "main"
  /\ stored = NoDoc
  /\ loadedFile["presenter"] \in Docs
  /\ loadedFile["main"] = NoDoc

\* a view started while the key held a blob that does not parse
C21_CorruptWitness ==
  /\ last.op = "startup" /\ stored = Corrupt
  /\ \E w \in Windows : last.win = w /\ page[w] = "open" /\ loadedFile[w] = NoDoc

(***************************************************************************)
(* The hand-over session with the mode parameter drawn from ModeValues:    *)
(* the user opens the primary window with no parameter or with a value the *)
(* code does not name, and the tab with any value but none                 *)
(***************************************************************************)
ModeInit ==
  /\ SegIdle
  /\ bcAvailable = TRUE
  /\ urlMode \in {m \in [Windows -> ModeValues] :
                    /\ m["main"] \in {"null", "draft"}
                    /\ m["presenter"] = "presenter"
                    /\ m["presenter2"] # "null"}
  /\ zipFile = <<>>
  /\ page = [w \in Windows |-> IF w = "main" THEN "open" ELSE "closed"]
  /\ stored = NoDoc
  /\ zipPending = MaxStoreLoads
  /\ drops = MaxStoreLoads
  /\ navs = 0
  /\ loadedFile = [w \in Windows |-> NoDoc]
  /\ pending = [w \in Windows |-> {}]
  /\ requested = [w \in Windows |-> 0]
  /\ MDXContent = [w \in Windows |-> NoDoc]
  /\ error = [w \in Windows |-> NoDoc]
  /\ currentSlideIndex = [w \in Windows |-> 0]
  /\ totalSlides = [w \in Windows |-> 0]
  /\ scrollTop = [w \in Windows |-> 0]
  /\ scrollTarget = [w \in Windows |-> -1]
  /\ listening = [w \in Windows |-> FALSE]
  /\ inflight = [ch \in Chans |-> EmptyQ]
  /\ channels = [ch \in Chans |-> 0]
  /\ closeMsgs = 0
  /\ last = [op |-> "none", win |-> "main", idx |-> 0, posted |-> {}, again |-> FALSE]

ModeSpec == ModeInit /\ [][StoreNext]_vars

(***************************************************************************)
(* Claims about the identity of a view, checked under ModeSpec             *)
(***************************************************************************)
\* C22: every view that shows a document is the primary view (no mode
\* parameter, acting as presentation view), a presenter view or a
\* presentation view, whatever the value of the mode parameter
C22_ExactlyThreeIdentities ==
  \A w \in Windows :
    DMounted(w) => viewMode(w) \in {"presenter", "presentation"}

(***************************************************************************)
(* The primary window and its console on a rendered deck: the parser's     *)
(* root children are drawn from DeckInputs, the plugin and the renderer    *)
(* have run, the console navigates and the views exchange SlideChange      *)
(***************************************************************************)
SpeakerNotes(kids) == Container("mdxJsxFlowElement", "SpeakerNotes", kids)

\* the texts that occur in speaker notes only
NotesTexts == {"N", "M", "K"}

\* a paragraph, a break, notes holding a paragraph, notes holding a Callout
\* and a paragraph, and a TwoColumnSlide with a paragraph and notes
DeckPool ==
  { Paragraph("A"), ThematicBreak,
    SpeakerNotes(<<Paragraph("N")>>),
    SpeakerNotes(<<Container("mdxJsxFlowElement", "Callout", <<Paragraph("N")>>),
                   Paragraph("M")>>),
    Container("mdxJsxFlowElement", "TwoColumnSlide",
              <<Paragraph("B"), SpeakerNotes(<<Paragraph("K")>>)>>) }

\* the decks whose sections a SlideChange can address
DeckInputs ==
  { r \in SeqsUpTo(DeckPool, MaxDeckLen) :
      Len(querySelectorAll(RenderMain(r), "section")) \in 1..Cardinality(SlideIdx) }

DeckInit ==
  /\ rootChildren \in DeckInputs
  /\ tree = [children |-> remarkSlides(rootChildren)]
  /\ segPc = "segmented"
  /\ bcAvailable = TRUE
  /\ urlMode = SessionModes
  /\ zipFile = <<>>
  /\ page = [w \in Windows |-> IF w = "presenter2" THEN "closed" ELSE "open"]
  /\ stored = TreeDoc
  /\ zipPending = 0
  /\ drops = 1
  /\ navs = 0
  /\ loadedFile = [w \in Windows |-> IF w = "presenter2" THEN NoDoc ELSE TreeDoc]
  /\ pending = [w \in Windows |-> {}]
  /\ requested = [w \in Windows |-> IF w = "presenter2" THEN 0 ELSE 1]
  /\ MDXContent = [w \in Windows |-> IF w = "presenter2" THEN NoDoc ELSE TreeDoc]
  /\ error = [w \in Windows |-> NoDoc]
  /\ currentSlideIndex = [w \in Windows |-> 0]
  /\ totalSlides = [w \in Windows |-> IF w = "presenter2" THEN 0
                                      ELSE SectionCount(TreeDoc)]
  /\ scrollTop = [w \in Windows |-> 0]
  /\ scrollTarget = [w \in Windows |-> -1]
  /\ listening = [w \in Windows |-> w # "presenter2"]
  /\ inflight = [ch \in Chans |-> EmptyQ]
  /\ channels = [ch \in Chans |-> IF ch[1] # "presenter2" /\ (ch[2] = "D" \/ ch[1] = "presenter")
                                  THEN 1 ELSE 0]
  /\ closeMsgs = 0
  /\ last = [op |-> "none", win |-> "main", idx |-> 0, posted |-> {}, again |-> FALSE]

DeckSpec == DeckInit /\ [][PairNext]_vars

(***************************************************************************)
(* Claims about the presenter projection, checked under DeckSpec           *)
(***************************************************************************)
\* the Slide units of the document a view holds
UnitsOf(w) == remarkSlides(ParsedRoot(MDXContent[w]))

\* the nodes below a node of the compiled tree, in document order
RECURSIVE NodesBelow(_)
NodesBelow(node) ==
  Join([k \in 1..Len(node.children) |->
          <<node.children[k]>> \o NodesBelow(node.children[k])])

\* the text of a node of the compiled tree
RECURSIVE NodeText(_)
NodeText(node) ==
  IF node.type = "paragraph" THEN <<node.name>>
  ELSE Join([k \in 1..Len(node.children) |-> NodeText(node.children[k])])

\* the speaker notes payload of Slide unit k (from 0) of a deck: the text of
\* its speaker-notes sub-node, empty when it declares none or does not exist
NotesPayload(units, k) ==
  IF k + 1 > Len(units) THEN <<>>
  ELSE LET notes == SelectSeq(NodesBelow(units[k + 1]), LAMBDA n : n.name = "SpeakerNotes")
       IN IF notes = <<>> THEN <<>> ELSE NodeText(notes[1])

\* C23: in every console, the notes projection is the text of the
\* speaker-notes sub-node of the Slide unit at the current index, and it is
\* empty, shown as the no-notes sentinel, when that unit declares no notes or
\* there is no unit at the index
C23_NotesOfActiveSlide ==
  \A w \in Windows :
    PVMounted(w) =>
      /\ currentNotes(w) = NotesPayload(UnitsOf(w), currentSlideIndex[w])
      /\ (NotesPayload(UnitsOf(w), currentSlideIndex[w]) = <<>>)
           = (NotesPanel(w) = NoNotesSentinel)

\* a tag or a text that comes from a speaker-notes sub-node
FromNotes(token) ==
  \/ token.notes
  \/ token.kind = "text" /\ token.tag \in NotesTexts

\* C24: in every console, neither the active-slide markup nor the next-slide
\* markup holds the tag or any text of a speaker-notes sub-node
C24_NoNotesInMarkup ==
  \A w \in Windows :
    PVMounted(w) =>
      LET active == currentSlideHTML(w)
          next == nextSlidePreview(w)
      IN /\ \A i \in 1..Len(active) : ~FromNotes(active[i])
         /\ \A i \in 1..Len(next) : ~FromNotes(next[i])

\* C27: in every view that has rendered, totalSlides is the number of Slide
\* units and the k-th section of the container is the section Slide unit k
\* renders
C27_SectionsAreSlideUnits ==
  \A w \in Windows :
    (ContainerMounted(w) /\ totalSlides[w] > 0) =>
      LET slides == querySelectorAll(container(w), "section")
      IN /\ totalSlides[w] = Len(UnitsOf(w))
         /\ \A k \in 1..Len(slides) :
              k <= Len(UnitsOf(w)) /\ slides[k] = Render(UnitsOf(w)[k])

(***************************************************************************)
(* The file picker reading a dropped archive                               *)
(***************************************************************************)
Entry(name, ext, dir, text) == [name |-> name, ext |-> ext, dir |-> dir, text |-> text]

\* the entries an archive can hold: two documents, a document with no text,
\* an image and a folder
EntryPool ==
  { Entry("a.mdx", "mdx", FALSE, 1), Entry("b.md", "md", FALSE, 2),
    Entry("c.mdx", "mdx", FALSE, NoDoc), Entry("img.png", "png", FALSE, NoDoc),
    Entry("docs/", "", TRUE, NoDoc) }

Archives == SeqsUpTo(EntryPool, MaxEntries)

\* the body of the for loop of processZipFile: one entry against the
\* variables mdxContent, mdxFileName and images
ZipLoopBody(acc, entry) ==
  IF entry.dir THEN acc
  ELSE IF entry.ext \in {"mdx", "md"}
  THEN [acc EXCEPT !.content = entry.text, !.fileName = entry.name]
  ELSE IF entry.ext \in {"png", "jpg", "jpeg", "gif", "svg", "webp", "mp4", "webm", "ogg", "mov"}
  THEN [acc EXCEPT !.images = @ \cup {entry.name}]
  ELSE acc

RECURSIVE ZipLoop(_, _)
ZipLoop(files, acc) ==
  IF files = <<>> THEN acc ELSE ZipLoop(Tail(files), ZipLoopBody(acc, Head(files)))

\* processZipFile: the loop over Object.entries(zipContent.files), in the
\* order of the archive; it throws when mdxContent is empty at the end
processZipFile(files) ==
  LET acc == ZipLoop(files, [content |-> NoDoc, fileName |-> "", images |-> {}])
  IN [threw |-> acc.content = NoDoc, content |-> acc.content,
      fileName |-> acc.fileName, images |-> acc.images]

\* handleDrop with a zip file among the dropped files: processZipFile starts
DropArchive(z) ==
  /\ page["main"] = "open" /\ loadedFile["main"] = NoDoc
  /\ zipPending = 0
  /\ drops < MaxLoads
  /\ drops' = drops + 1
  /\ zipPending' = 1
  /\ zipFile' = z
  /\ last' = Event("dropArchive", "main", 0, {})
  /\ UNCHANGED <<segVars, bcAvailable, urlMode, page, stored, navs, loadedFile, mdxVars,
                 inflight, channels, closeMsgs>>

\* processZipFile resolves and handleDrop calls onFileLoad
ArchiveRead ==
  /\ ~processZipFile(zipFile).threw
  /\ handleFileLoad(processZipFile(zipFile).content)

\* processZipFile throws: handleDrop logs and alerts
ArchiveRejected ==
  /\ zipPending > 0
  /\ processZipFile(zipFile).threw
  /\ zipPending' = zipPending - 1
  /\ last' = Event("archiveRejected", "main", 0, {})
  /\ UNCHANGED <<segVars, bcAvailable, urlMode, zipFile, page, stored, drops, navs,
                 loadedFile, mdxVars, inflight, channels, closeMsgs>>

ZipInit ==
  /\ SegIdle
  /\ bcAvailable = TRUE
  /\ urlMode = SessionModes
  /\ zipFile = <<>>
  /\ ViewInit

ZipNext ==
  \/ \E z \in Archives : DropArchive(z)
  \/ ArchiveRead
  \/ ArchiveRejected
  \/ \E w \in Windows : CompileDone(w)
  \/ \E w \in Windows : EscapeKey(w)

ZipSpec == ZipInit /\ [][ZipNext]_vars

(***************************************************************************)
(* Claims about the archive, checked under ZipSpec                         *)
(***************************************************************************)
\* the positions of the .mdx and .md files of an archive
DocumentEntries(files) ==
  {k \in 1..Len(files) : ~files[k].dir /\ files[k].ext \in {"mdx", "md"}}

\* C25: when the archive holds several .mdx or .md files, the document that
\* is loaded, and its file name, are those of the first such file in the
\* order of the archive
C25_FirstDocumentWins ==
  [][(last'.op = "handleFileLoad" /\ DocumentEntries(zipFile) # {})
     => LET first == CHOOSE k \in DocumentEntries(zipFile) :
                       \A j \in DocumentEntries(zipFile) : k <= j
        IN /\ last'.idx = zipFile[first].text
           /\ processZipFile(zipFile).fileName = zipFile[first].name
    ]_vars

(***************************************************************************)
(* The primary window following its console: navigation in the console,    *)
(* deliveries, and the frames of the smooth scroll; nobody scrolls by hand *)
(***************************************************************************)
\* the channel hands messages over in posting order: the SlideChange the
\* console posted last carries the console's current index, and it is
\* delivered after everything else that is queued for the same receiver
InOrder(w, i) ==
  (\E j \in MsgIdx \ {i} : inflight[<<w, "D">>][j] > 0)
    => i # currentSlideIndex["presenter"]

DeliverInOrder(w, i) == InOrder(w, i) /\ DeliverD(w, i)

JumpNext ==
  \/ \E w \in Windows : \E i \in MsgIdx : DeliverInOrder(w, i)
  \/ \E w \in Windows : \E dir \in {-1, 1} : PresenterGoTo(w, dir)
  \/ \E w \in Windows : \E y \in 0..MaxScroll(3) : ScrollFrame(w, y)

\* the event loop runs every queued message task and the animation of a
\* smooth scroll keeps producing frames until it reaches its end position
JumpFairness ==
  /\ \A w \in Windows : \A i \in MsgIdx : WF_vars(DeliverInOrder(w, i))
  /\ \A w \in Windows : WF_vars(\E y \in 0..MaxScroll(3) : ScrollFrame(w, y))

JumpFairSpec == PairInit /\ [][JumpNext]_vars /\ JumpFairness

(***************************************************************************)
(* Claims about the jump of the presentation view, checked under           *)
(* JumpFairSpec                                                            *)
(***************************************************************************)
\* C26: when the console has navigated to an existing slide i and navigates
\* no more, the presentation view ends up, and stays, at index i with the
\* console, whatever the scroll events of the smooth scroll reported (stated
\* for a presentation view that has received every earlier SlideChange, so
\* that SlideChange(i) is all it still has to receive from this navigation)
C26_ViewsAgreeAfterJump ==
  \A i \in MsgIdx :
    [](( /\ last.op = "presenterGoTo" /\ last.win = "presenter" /\ last.idx = i
         /\ currentSlideIndex["presenter"] = i
         /\ inflight[<<"main", "D">>] = [EmptyQ EXCEPT ![i] = 1]
         /\ navs = MaxNav )
       => <>[]( /\ currentSlideIndex["main"] = i
                /\ currentSlideIndex["presenter"] = i ))

(***************************************************************************)
(* Views on different documents: the primary window is compiling the       *)
(* document it loaded last (two slides, or malformed) and its companion    *)
(* window has been                                                         *)
(* closed in the browser; a console in a tab still shows the 3-slide       *)
(* document loaded before; a foreign page of the origin posts on the       *)
(* channel too                                                             *)
(***************************************************************************)
\* a page that is not this application posts SLIDE_CHANGE with index i on the
\* 'presentation-sync' channel
ForeignPost(i) ==
  /\ \A ch \in OpenChans : inflight[ch][i] = 0
  /\ HasRoom(inflight, <<"foreign", "page">>)
  /\ inflight' = PostMessage(inflight, <<"foreign", "page">>, i)
  /\ last' = Event("foreignPost", "main", i, {})
  /\ UNCHANGED <<segVars, appVars, mdxVars, channels, closeMsgs>>

StaleInit ==
  /\ SegIdle
  /\ bcAvailable = TRUE
  /\ urlMode = SessionModes
  /\ zipFile = <<>>
  /\ page = [w \in Windows |-> IF w = "presenter" THEN "closed" ELSE "open"]
  /\ stored \in {2, 3}
  /\ zipPending = 0
  /\ drops = 2
  /\ navs = 0
  /\ loadedFile = [main |-> stored, presenter |-> NoDoc, presenter2 |-> 1]
  /\ pending = [main |-> {Request(1, stored)}, presenter |-> {}, presenter2 |-> {}]
  /\ requested = [main |-> 1, presenter |-> 0, presenter2 |-> 1]
  /\ MDXContent = [main |-> NoDoc, presenter |-> NoDoc, presenter2 |-> 1]
  /\ error = [w \in Windows |-> NoDoc]
  /\ currentSlideIndex = [w \in Windows |-> 0]
  /\ totalSlides = [main |-> 0, presenter |-> 0, presenter2 |-> SectionCount(1)]
  /\ scrollTop = [w \in Windows |-> 0]
  /\ scrollTarget = [w \in Windows |-> -1]
  /\ listening = [w \in Windows |-> w = "presenter2"]
  /\ inflight = [ch \in Chans |-> EmptyQ]
  /\ channels = [ch \in Chans |-> IF OwnerMounted(ch) THEN 1 ELSE 0]
  /\ closeMsgs = 0
  /\ last = NoEvent

StaleNext ==
  \/ \E w \in Windows : CompileDone(w)
  \/ \E w \in Windows : \E i \in MsgIdx : DeliverD(w, i)
  \/ \E w \in Windows : \E i \in MsgIdx : DeliverPV(w, i)
  \/ \E w \in Windows : \E dir \in {-1, 1} : PresenterGoTo(w, dir)
  \/ \E i \in MsgIdx \ SlideIdx : ForeignPost(i)

StaleSpec == StaleInit /\ [][StaleNext]_vars

(***************************************************************************)
(* Claims about indices without a section, checked under StaleSpec         *)
(***************************************************************************)
\* the channel object whose onmessage ran last
Receiver(event) == <<event.win, IF event.op = "deliverD" THEN "D" ELSE "PV">>

\* C28: a delivered SlideChange whose index addresses no section of the
\* receiving view (negative, not below the number of sections, or the
\* container is not mounted) leaves the view's index, scroll position and
\* running scroll as they are, raises no error, posts nothing, and is gone
\* from the queue
C28_UnaddressedIndexDropped ==
  [][\A w \in Windows :
       (/\ last'.op \in DeliverOps /\ last'.win = w
        /\ ~(ContainerMounted(w) /\ last'.idx >= 0 /\ last'.idx < Sections(w)))
       => /\ currentSlideIndex' = currentSlideIndex
          /\ scrollTop' = scrollTop
          /\ scrollTarget' = scrollTarget
          /\ page' = page /\ error' = error
          /\ last'.posted = {}
          /\ inflight' = TakeMessage(inflight, Receiver(last'), last'.idx)]_vars

\* the primary window, on slide 1 of its two slides, received the index 2 that
\* the console on the 3-slide document published, and stayed on slide 1
C28_Witness ==
  /\ last.op = "deliverD" /\ last.win = "main" /\ last.idx = 2
  /\ Sections("main") = 2
  /\ currentSlideIndex["main"] = 1
  /\ currentSlideIndex["presenter2"] = 2

\* a view that was still compiling received a SlideChange
C28_NotMountedWitness ==
  /\ last.op = "deliverD" /\ last.win = "main" /\ last.idx = 1
  /\ DMounted("main") /\ ~ContainerMounted("main")

\* a view that shows the error panel received a SlideChange
C28_ErrorPanelWitness ==
  /\ last.op = "deliverD" /\ last.win = "main" /\ last.idx = 1
  /\ error["main"] # NoDoc

\* a view received a negative index
C28_NegativeWitness ==
  /\ last.op \in DeliverOps /\ last.idx < 0
  /\ ContainerMounted(last.win)

(***************************************************************************)
(* A console from its mount on: the primary window shows the 2-slide       *)
(* document, its companion is compiling it; the console's timer ticks and  *)
(* its parent renders again while it navigates and receives the slide      *)
(* indices a foreign page posts                                            *)
(***************************************************************************)
\* the interval callback of PresenterView: setElapsedTime renders the view
\* again; no dependency of the subscribe or the publish effect changed
TimerTick(w) ==
  /\ PVMounted(w)
  /\ last' = Event("timerTick", w, currentSlideIndex[w], {})
  /\ UNCHANGED <<segVars, appVars, mdxVars, inflight, channels, closeMsgs>>

\* DynamicMDX renders again without a new index: PresenterView gets a new
\* onSlideChange, its subscribe effect re-runs (close, create), its publish
\* effect does not
HandlerChange(w) ==
  /\ PVMounted(w)
  /\ inflight' = CloseChannel(inflight, <<w, "PV">>)
  /\ channels' = Recreated(w)
  /\ last' = Event("handlerChange", w, currentSlideIndex[w], {})
  /\ UNCHANGED <<segVars, appVars, mdxVars, closeMsgs>>

PublishInit ==
  /\ SegIdle
  /\ bcAvailable = TRUE
  /\ urlMode = SessionModes
  /\ zipFile = <<>>
  /\ page = [w \in Windows |-> IF w = "presenter2" THEN "closed" ELSE "open"]
  /\ stored = 2
  /\ zipPending = 0
  /\ drops = 1
  /\ navs = 0
  /\ loadedFile = [w \in Windows |-> IF w = "presenter2" THEN NoDoc ELSE 2]
  /\ pending = [w \in Windows |-> IF w = "presenter" THEN {Request(1, 2)} ELSE {}]
  /\ requested = [w \in Windows |-> IF w = "presenter2" THEN 0 ELSE 1]
  /\ MDXContent = [w \in Windows |-> IF w = "main" THEN 2 ELSE NoDoc]
  /\ error = [w \in Windows |-> NoDoc]
  /\ currentSlideIndex = [w \in Windows |-> 0]
  /\ totalSlides = [w \in Windows |-> IF w = "main" THEN SectionCount(2) ELSE 0]
  /\ scrollTop = [w \in Windows |-> 0]
  /\ scrollTarget = [w \in Windows |-> -1]
  /\ listening = [w \in Windows |-> w = "main"]
  /\ inflight = [ch \in Chans |-> EmptyQ]
  /\ channels = [ch \in Chans |-> IF OwnerMounted(ch) THEN 1 ELSE 0]
  /\ closeMsgs = 0
  /\ last = NoEvent

PublishNext ==
  \/ \E w \in Windows : CompileDone(w)
  \/ \E w \in Windows : \E i \in MsgIdx : DeliverD(w, i)
  \/ \E w \in Windows : \E i \in MsgIdx : DeliverPV(w, i)
  \/ \E w \in Windows : \E dir \in {-1, 1} : PresenterGoTo(w, dir)
  \/ \E w \in Windows : TimerTick(w)
  \/ \E w \in Windows : HandlerChange(w)
  \/ \E i \in {0, 1} : ForeignPost(i)

PublishSpec == PublishInit /\ [][PublishNext]_vars

(***************************************************************************)
(* Claims about what a console publishes, checked under PublishSpec        *)
(***************************************************************************)
\* what the step into the primed state should have sent from window w
Due(w) ==
  IF PVMounted(w)' /\ (~PVMounted(w) \/ currentSlideIndex'[w] # currentSlideIndex[w])
  THEN {<<w, currentSlideIndex'[w]>>} ELSE {}

\* C29: a mounted PresenterView publishes exactly one SlideChange with its
\* current index in the step that mounts it and in every step that changes
\* its index, and nothing in any other step (a timer tick, a new handler
\* identity with its re-created channel, a delivery that changes nothing):
\* the primary window's queue grows by exactly that one message
C29_PublishesOnMountAndChange ==
  [][\A w \in Windows \ {"main"} :
       /\ { p \in last'.posted : p[1] = w } = Due(w)
       /\ last'.win = w =>
            /\ last'.op # "foreignPost"
            /\ inflight'[<<"main", "D">>] =
                 IF Due(w) = {} THEN inflight[<<"main", "D">>]
                 ELSE [inflight[<<"main", "D">>] EXCEPT ![currentSlideIndex'[w]] = @ + 1]]_vars

\* the console published its index at mount, later the index of a key press,
\* and then a timer tick published nothing
C29_Witness ==
  /\ last.op = "timerTick" /\ last.win = "presenter" /\ last.posted = {}
  /\ currentSlideIndex["presenter"] = 1
  /\ inflight[<<"main", "D">>] = [EmptyQ EXCEPT ![0] = 1, ![1] = 1]

\* the console's channel was re-created for a new handler and nothing was sent
C29_HandlerWitness ==
  /\ last.op = "handlerChange" /\ last.win = "presenter" /\ last.posted = {}
  /\ inflight[<<"main", "D">>] = [EmptyQ EXCEPT ![0] = 1]

\* C30: a mounted PresenterView holds exactly one open channel object and no
\* view ever holds more than one, however often the subscribe effect re-ran;
\* the view that just published a SlideChange did so with its channel open
C30_OneOpenChannel ==
  \A w \in Windows :
    /\ channels[<<w, "PV">>] <= 1
    /\ PVMounted(w) => channels[<<w, "PV">>] = 1
    /\ (\E p \in last.posted : p[1] = w) => IsOpen(<<w, "PV">>)

\* the console's subscribe effect re-ran for an index that a message brought,
\* and the console published that index
C30_Witness ==
  /\ last.op = "deliverPV" /\ last.win = "presenter"
  /\ last.posted = {<<"presenter", 1>>}
  /\ channels[<<"presenter", "PV">>] = 1

\* the console's subscribe effect re-ran for a new handler after an index change
C30_HandlerWitness ==
  /\ last.op = "handlerChange" /\ last.win = "presenter"
  /\ currentSlideIndex["presenter"] = 1
  /\ channels[<<"presenter", "PV">>] = 1

====
